---- MODULE Spec2Model ----
(***************************************************************************)
(* Decision Sherlock: the model-response normalization pipeline.           *)
(*                                                                         *)
(* Two implementations of analyzeDecision exist in the repository:         *)
(*   "ds"  src/decisionSherlock.ts.tsx   (lenient parser + normalizer)     *)
(*   "gs"  src/services/geminiService.ts (the one the wizard imports)      *)
(* Both are modelled, step by step, over the same state.                   *)
(*                                                                         *)
(* Texts are sequences of tokens (a token is one lexeme of the raw model   *)
(* output: the sentinel marker, a code fence, a brace, a JSON literal, a   *)
(* run of whitespace, a word of prose).  JavaScript values are tagged      *)
(* records of one shape, so that any two of them can be compared.          *)
(* Numbers are fixed-point, in tenths: Num(876) is 87.6.                   *)
(***************************************************************************)
EXTENDS Integers, Sequences, FiniteSets, TLC

VARIABLES
    impl,          \* which analyzeDecision runs: "ds" or "gs"
    pc,            \* position inside analyzeDecision
    scenario,      \* how the raw response was put together (the test input)
    response,      \* what ai.models.generateContent returned
    rawText,       \* [isString, toks]: the extracted text
    jsonCandidate, \* ds jsonCandidate / gs cleaned, as tokens
    tier,          \* which return of safeParseJSON was taken (0 = none)
    parsedRaw,     \* the parsed JSON value
    normalized,    \* ds: `final` before winner inference
    final,         \* the value analyzeDecision resolves with
    err,           \* the failure analyzeDecision rejects with ("" = none)
    modelCalls,    \* number of generateContent calls of this invocation
    clampArg,      \* unit check of clampScore: the argument
    clampRes,      \* unit check of clampScore: the result (Undef = not run)
    app,           \* the wizard's React state: [step, error, result]
    request,       \* [options, contents]: the input options and the contents
                   \* list built for generateContent
    env,           \* process.env.API_KEY ("" = not set)
    globalKey,     \* globalThis.__API_KEY__ ("" = not set)
    apiKey,        \* the apiKey the GoogleGenAI client was made with ("" = no client)
    decision,      \* the wizard's DecisionState without its result (which is
                   \* app.result): [title, description, criteria, options]
    analyses,      \* the analyzeDecision calls of handleAnalyze that are pending:
                   \* the `state` each was called with
    uploads        \* the handleFileUpload calls that are reading files:
                   \* [optionId, newAttachments, options], options being the
                   \* state.options of the render the handler belongs to

vars == <<impl, pc, scenario, response, rawText, jsonCandidate, tier,
          parsedRaw, normalized, final, err, modelCalls, clampArg, clampRes,
          app, request, env, globalKey, apiKey, decision, analyses, uploads>>

-----------------------------------------------------------------------------
(* JavaScript values *)

JV(t, n, s, keys, kids) ==
    [t |-> t, n |-> n, s |-> s, keys |-> keys, kids |-> kids]

Undef == JV("undef", 0, "", <<>>, <<>>)
Null == JV("null", 0, "", <<>>, <<>>)
Bool(b) == JV("bool", IF b THEN 1 ELSE 0, "", <<>>, <<>>)
Num(n) == JV("num", n, "", <<>>, <<>>)
NaN == JV("nan", 0, "", <<>>, <<>>)
Str(s) == JV("str", 0, s, <<>>, <<>>)
Arr(kids) == JV("arr", 0, "", <<>>, kids)
Obj(keys, kids) == JV("obj", 0, "", keys, kids)

\* one JavaScript number is written in tenths
Scale == 10

Min(S) == CHOOSE x \in S : \A y \in S : x <= y
Max(S) == CHOOSE x \in S : \A y \in S : x >= y

HasKey(v, key) == v.t \in {"obj", "arrx"} /\ \E i \in 1..Len(v.keys) : v.keys[i] = key

\* v.key for a v that is neither null nor undefined (those throw a TypeError)
Prop(v, key) ==
    IF HasKey(v, key)
    THEN v.kids[CHOOSE i \in 1..Len(v.keys) : v.keys[i] = key]
    ELSE Undef

Nullish(v) == v.t \in {"null", "undef"}

\* a ?? b
Coalesce(a, b) == IF Nullish(a) THEN b ELSE a

\* ToBoolean
Truthy(v) ==
    CASE v.t \in {"null", "undef", "nan"} -> FALSE
      [] v.t \in {"bool", "num"} -> v.n # 0
      [] v.t = "str" -> v.s # ""
      [] OTHER -> TRUE

ArrayIsArray(v) == v.t = "arr"

\* the decimal text of a number given in tenths
NumberToString(n) ==
    LET a == IF n < 0 THEN -n ELSE n
        whole == ToString(a \div Scale)
        frac == IF a % Scale = 0 THEN "" ELSE "." \o ToString(a % Scale)
    IN (IF n < 0 THEN "-" ELSE "") \o whole \o frac

\* String(v)
RECURSIVE JSString(_)
RECURSIVE JoinStrings(_, _)
JoinStrings(kids, i) ==
    IF i > Len(kids) THEN ""
    ELSE (IF Nullish(kids[i]) THEN "" ELSE JSString(kids[i]))
         \o (IF i < Len(kids) THEN "," ELSE "")
         \o JoinStrings(kids, i + 1)

JSString(v) ==
    CASE v.t = "undef" -> "undefined"
      [] v.t = "null" -> "null"
      [] v.t = "nan" -> "NaN"
      [] v.t = "bool" -> IF v.n = 1 THEN "true" ELSE "false"
      [] v.t = "num" -> NumberToString(v.n)
      [] v.t = "str" -> v.s
      [] v.t = "arr" -> JoinStrings(v.kids, 1)
      [] OTHER -> "[object Object]"

\* the strings of the model that JavaScript reads as a number, in tenths
NumericStrings ==
    [s \in {"", "0", "50", "150", "87.6", "-1"} |->
        CASE s = "" -> 0
          [] s = "0" -> 0
          [] s = "50" -> 500
          [] s = "150" -> 1500
          [] s = "87.6" -> 876
          [] OTHER -> -10]

StringToNumber(s) ==
    IF s \in DOMAIN NumericStrings THEN Num(NumericStrings[s]) ELSE NaN

\* Number(v)
Number(v) ==
    CASE v.t = "undef" -> NaN
      [] v.t = "null" -> Num(0)
      [] v.t = "nan" -> NaN
      [] v.t = "bool" -> Num(v.n * Scale)
      [] v.t = "num" -> v
      [] v.t = "str" -> StringToNumber(v.s)
      [] v.t = "arr" -> StringToNumber(JSString(v))
      [] OTHER -> NaN

\* Math.round of a number in tenths: the nearest integer, halves upwards
MathRound(n) == ((n + (Scale \div 2)) \div Scale) * Scale

-----------------------------------------------------------------------------
(* Tokens and texts *)

Tok(k, s, n) == [k |-> k, s |-> s, n |-> n]
P(c) == Tok("p", c, 0)
WS == Tok("ws", " ", 0)
MARKER == Tok("marker", "###RESULT_JSON###", 0)
\* a code fence: three backticks
FENCE == Tok("fence", "fence", 0)
Word(w) == Tok("word", w, 0)
StrTok(s) == Tok("str", s, 0)
NumTok(n) == Tok("num", "", n)
LitTok(s) == Tok("lit", s, 0)
QUOTE == Tok("quote", "", 0)

IsWs(tk) == tk.k = "ws"

\* str.trim()
Trim(toks) ==
    LET keep == {i \in 1..Len(toks) : ~IsWs(toks[i])}
    IN IF keep = {} THEN <<>> ELSE SubSeq(toks, Min(keep), Max(keep))

\* a slip: lastIndexOf in place of indexOf
LastIndexOfMarker(toks) ==
    LET at == {i \in 1..Len(toks) : toks[i] = MARKER}
    IN IF at = {} THEN 0 ELSE Max(at)

\* str.indexOf(marker), 1-based; 0 when absent
IndexOfMarker(toks) ==
    LET at == {i \in 1..Len(toks) : toks[i] = MARKER}
    IN IF at = {} THEN 0 ELSE Min(at)

\* the index after the whitespace run that starts at i
SkipWs(toks, i) ==
    Min({j \in i..(Len(toks) + 1) : j = Len(toks) + 1 \/ ~IsWs(toks[j])})

-----------------------------------------------------------------------------
(* JSON.stringify and JSON.parse *)

RECURSIVE JSONstringify(_)
RECURSIVE StringifyElems(_, _)
RECURSIVE StringifyMembers(_, _, _)

StringifyElems(kids, i) ==
    IF i > Len(kids) THEN <<>>
    ELSE (IF kids[i].t = "undef" THEN <<LitTok("null")>>
          ELSE JSONstringify(kids[i]))
         \o (IF i < Len(kids) THEN <<P(",")>> ELSE <<>>)
         \o StringifyElems(kids, i + 1)

\* members whose value is undefined are left out
StringifyMembers(v, i, first) ==
    IF i > Len(v.keys) THEN <<>>
    ELSE IF v.kids[i].t = "undef" THEN StringifyMembers(v, i + 1, first)
    ELSE (IF first THEN <<>> ELSE <<P(",")>>)
         \o <<StrTok(v.keys[i]), P(":")>> \o JSONstringify(v.kids[i])
         \o StringifyMembers(v, i + 1, FALSE)

\* JSON.stringify(v) for a v that is not undefined
JSONstringify(v) ==
    CASE v.t \in {"null", "nan"} -> <<LitTok("null")>>
      [] v.t = "bool" -> <<LitTok(IF v.n = 1 THEN "true" ELSE "false")>>
      [] v.t = "num" -> <<NumTok(v.n)>>
      [] v.t = "str" -> <<StrTok(v.s)>>
      [] v.t = "arr" -> <<P("[")>> \o StringifyElems(v.kids, 1) \o <<P("]")>>
      [] OTHER -> <<P("{")>> \o StringifyMembers(v, 1, TRUE) \o <<P("}")>>

ParseFail == [ok |-> FALSE, v |-> Undef, i |-> 0]
ParseOk(v, i) == [ok |-> TRUE, v |-> v, i |-> i]

\* obj[key] = val while parsing: a repeated key keeps its place, last value
PutMember(keys, kids, key, val) ==
    IF \E i \in 1..Len(keys) : keys[i] = key
    THEN [keys |-> keys,
          kids |-> [i \in 1..Len(kids) |-> IF keys[i] = key THEN val ELSE kids[i]]]
    ELSE [keys |-> Append(keys, key), kids |-> Append(kids, val)]

RECURSIVE ParseValue(_, _)
RECURSIVE ParseElements(_, _, _)
RECURSIVE ParseMembers(_, _, _, _)

\* a string literal spelled with quotes: up to the next unescaped quote
ParseQuoted(toks, i) ==
    LET closing == {j \in i..Len(toks) : toks[j] = QUOTE}
    IN IF closing = {} THEN ParseFail
       ELSE IF \E j \in i..Min(closing) : toks[j].k = "str" THEN ParseFail
       ELSE ParseOk(Str("(text)"), Min(closing) + 1)

ParseValue(toks, i0) ==
    LET i == SkipWs(toks, i0)
    IN IF i > Len(toks) THEN ParseFail
       ELSE LET tk == toks[i]
            IN CASE tk.k = "str" -> ParseOk(Str(tk.s), i + 1)
                 [] tk.k = "num" -> ParseOk(Num(tk.n), i + 1)
                 [] tk.k = "lit" ->
                        ParseOk(CASE tk.s = "null" -> Null
                                  [] tk.s = "true" -> Bool(TRUE)
                                  [] OTHER -> Bool(FALSE), i + 1)
                 [] tk.k = "quote" ->
                        IF i + 1 <= Len(toks) /\ toks[i + 1] = QUOTE
                        THEN ParseOk(Str(""), i + 2)
                        ELSE ParseQuoted(toks, i + 1)
                 [] tk = P("[") -> ParseElements(toks, i + 1, <<>>)
                 [] tk = P("{") -> ParseMembers(toks, i + 1, <<>>, <<>>)
                 [] OTHER -> ParseFail

ParseElements(toks, i0, acc) ==
    LET i == SkipWs(toks, i0)
    IN IF i > Len(toks) THEN ParseFail
       ELSE IF toks[i] = P("]")
       THEN (IF acc = <<>> THEN ParseOk(Arr(acc), i + 1) ELSE ParseFail)
       ELSE LET r == ParseValue(toks, i)
            IN IF ~r.ok THEN ParseFail
               ELSE LET j == SkipWs(toks, r.i)
                    IN IF j > Len(toks) THEN ParseFail
                       ELSE IF toks[j] = P(",")
                       THEN ParseElements(toks, j + 1, Append(acc, r.v))
                       ELSE IF toks[j] = P("]")
                       THEN ParseOk(Arr(Append(acc, r.v)), j + 1)
                       ELSE ParseFail

ParseMembers(toks, i0, keys, kids) ==
    LET i == SkipWs(toks, i0)
    IN IF i > Len(toks) THEN ParseFail
       ELSE IF toks[i] = P("}")
       THEN (IF keys = <<>> THEN ParseOk(Obj(keys, kids), i + 1) ELSE ParseFail)
       ELSE IF toks[i].k # "str" THEN ParseFail
       ELSE LET c == SkipWs(toks, i + 1)
            IN IF c > Len(toks) \/ toks[c] # P(":") THEN ParseFail
               ELSE LET r == ParseValue(toks, c + 1)
                    IN IF ~r.ok THEN ParseFail
                       ELSE LET j == SkipWs(toks, r.i)
                                m == PutMember(keys, kids, toks[i].s, r.v)
                            IN IF j > Len(toks) THEN ParseFail
                               ELSE IF toks[j] = P(",")
                               THEN ParseMembers(toks, j + 1, m.keys, m.kids)
                               ELSE IF toks[j] = P("}")
                               THEN ParseOk(Obj(m.keys, m.kids), j + 1)
                               ELSE ParseFail

\* JSON.parse(text): ok = FALSE is the SyntaxError
JSONparse(toks) ==
    LET r == ParseValue(toks, 1)
    IN IF r.ok /\ SkipWs(toks, r.i) > Len(toks)
       THEN [ok |-> TRUE, v |-> r.v]
       ELSE [ok |-> FALSE, v |-> Undef]

-----------------------------------------------------------------------------
(* The regular expressions of the two files *)

IsJsonTag(tk) == tk.k = "word" /\ tk.s \in {"json", "JSON"}

\* .replace(/^```json\s*/i, "")
StripLeadingJsonFence(toks) ==
    IF Len(toks) >= 2 /\ toks[1] = FENCE /\ IsJsonTag(toks[2])
    THEN SubSeq(toks, SkipWs(toks, 3), Len(toks))
    ELSE toks

\* .replace(/^```\s*/i, "")
StripLeadingFence(toks) ==
    IF Len(toks) >= 1 /\ toks[1] = FENCE
    THEN SubSeq(toks, SkipWs(toks, 2), Len(toks))
    ELSE toks

\* a slip: the third replace left out
KeepTrailingFence(toks) == toks

\* .replace(/```\s*$/i, "")
StripTrailingFence(toks) ==
    LET keep == {i \in 1..Len(toks) : ~IsWs(toks[i])}
    IN IF keep # {} /\ toks[Max(keep)] = FENCE
       THEN SubSeq(toks, 1, Max(keep) - 1)
       ELSE toks

\* the three replaces and the trim that follow the marker
StripFences(toks) ==
    Trim(StripTrailingFence(StripLeadingFence(StripLeadingJsonFence(toks))))

\* a slip: a lazy quantifier, from the first { to the first } after it
BraceBlockLazy(toks) ==
    LET opens == {i \in 1..Len(toks) : toks[i] = P("{")}
        closes == {i \in 1..Len(toks) : toks[i] = P("}") /\ i > Min(opens \cup {Len(toks)})}
    IN IF opens # {} /\ closes # {}
       THEN [some |-> TRUE, toks |-> SubSeq(toks, Min(opens), Min(closes))]
       ELSE [some |-> FALSE, toks |-> <<>>]

\* text.match(/(\{[\s\S]*\})/m): greedy, from the first { to the last }
BraceBlock(toks) ==
    LET opens == {i \in 1..Len(toks) : toks[i] = P("{")}
        closes == {i \in 1..Len(toks) : toks[i] = P("}")}
    IN IF opens # {} /\ closes # {} /\ Max(closes) > Min(opens)
       THEN [some |-> TRUE, toks |-> SubSeq(toks, Min(opens), Max(closes))]
       ELSE [some |-> FALSE, toks |-> <<>>]

\* the tokens of toks at the indices in keep, in order
KeepAt(toks, keep) ==
    [n \in 1..Cardinality(keep) |->
        toks[CHOOSE i \in keep : Cardinality({j \in keep : j <= i}) = n]]

\* .replace(/,\s*X/g, "X") for a closing X: every match is one comma, the
\* whitespace after it and X, so the matches cannot overlap
RemoveCommaBefore(toks, closer) ==
    LET matches == {i \in 1..Len(toks) :
                      /\ toks[i] = P(",")
                      /\ SkipWs(toks, i + 1) <= Len(toks)
                      /\ toks[SkipWs(toks, i + 1)] = P(closer)}
        dropped == {j \in 1..Len(toks) :
                      \E i \in matches : i <= j /\ j < SkipWs(toks, i + 1)}
    IN KeepAt(toks, (1..Len(toks)) \ dropped)

\* a slip: the second replace left out
CleanTrailingCommasBeforeBraces(text) == RemoveCommaBefore(text, "}")

\* text.replace(/,\s*}/g, "}").replace(/,\s*]/g, "]")
CleanTrailingCommas(text) ==
    RemoveCommaBefore(RemoveCommaBefore(text, "}"), "]")

\* safeParseJSON(text): ok = FALSE is its Error; tier is the return taken
safeParseJSON(text) ==
    LET strict == JSONparse(text)
        cleaned == CleanTrailingCommas(text)
        second == JSONparse(cleaned)
        m == BraceBlock(cleaned)
        third == JSONparse(m.toks)
    IN IF strict.ok THEN [ok |-> TRUE, v |-> strict.v, tier |-> 1]
       ELSE IF second.ok THEN [ok |-> TRUE, v |-> second.v, tier |-> 2]
       ELSE IF m.some /\ third.ok THEN [ok |-> TRUE, v |-> third.v, tier |-> 3]
       ELSE [ok |-> FALSE, v |-> Undef, tier |-> 0]

-----------------------------------------------------------------------------
(* The response of the model invoker: an object of unknown shape.          *)
(*   nil        "undefined", "null" or "object"                            *)
(*   value      response.value (Undef when absent)                         *)
(*   text       k: "absent", "function" or "string"; for a function, ret   *)
(*              is "string", "undefined" or "throws"; toks is the text     *)
(*   outputText [some, toks]                                               *)
(*   outputs    [some, items], an item being [k, toks, j]                  *)
(*   circular   JSON.stringify(response) throws                            *)

NoText == [k |-> "absent", ret |-> "string", toks |-> <<>>]
NoField == [some |-> FALSE, toks |-> <<>>]
NoOutputs == [some |-> FALSE, items |-> <<>>]
Item(k, toks, j) == [k |-> k, toks |-> toks, j |-> j]

Response(nil, value, text, outputText, outputs, circular) ==
    [nil |-> nil, value |-> value, text |-> text, outputText |-> outputText,
     outputs |-> outputs, circular |-> circular]

EmptyObject == Response("object", Undef, NoText, NoField, NoOutputs, FALSE)

\* a string as JSON.stringify writes it: quoted, the quotes inside escaped
Quoted(toks) ==
    <<QUOTE>>
    \o [i \in 1..Len(toks) |->
            IF toks[i].k \in {"str", "quote"}
            THEN Tok("esc", toks[i].s, 0) ELSE toks[i]]
    \o <<QUOTE>>

\* JSON.stringify(o) of one entry of response.outputs
SerializeItem(it) ==
    CASE it.k = "null" -> <<LitTok("null")>>
      [] it.k = "text" ->
            <<P("{"), StrTok("text"), P(":")>> \o Quoted(it.toks) \o <<P("}")>>
      [] it.k = "content_text" ->
            <<P("{"), StrTok("content"), P(":"), P("["), P("{"), StrTok("text"), P(":")>>
            \o Quoted(it.toks) \o <<P("}"), P("]"), P("}")>>
      [] it.k = "content_json" ->
            <<P("{"), StrTok("content"), P(":"), P("["), P("{"),
              StrTok("mimeType"), P(":"), StrTok("application/json"), P(","),
              StrTok("json"), P(":")>>
            \o JSONstringify(it.j) \o <<P("}"), P("]"), P("}")>>
      [] it.k = "content_str" ->
            <<P("{"), StrTok("content"), P(":"), P("[")>>
            \o Quoted(it.toks) \o <<P("]"), P("}")>>
      [] OTHER -> <<P("{"), P("}")>>

RECURSIVE SerializeItems(_, _)
SerializeItems(items, i) ==
    IF i > Len(items) THEN <<>>
    ELSE SerializeItem(items[i])
         \o (IF i < Len(items) THEN <<P(",")>> ELSE <<>>)
         \o SerializeItems(items, i + 1)

\* the members of JSON.stringify(response); a function member is left out
RECURSIVE JoinMembers(_, _)
JoinMembers(ms, i) ==
    IF i > Len(ms) THEN <<>>
    ELSE ms[i] \o (IF i < Len(ms) THEN <<P(",")>> ELSE <<>>) \o JoinMembers(ms, i + 1)

\* JSON.stringify(response) for an object that is not circular
SerializeResponse(r) ==
    LET mValue == IF r.value.t = "undef" THEN <<>>
                  ELSE <<(<<StrTok("value"), P(":")>> \o JSONstringify(r.value))>>
        mText == IF r.text.k = "string"
                 THEN <<(<<StrTok("text"), P(":")>> \o Quoted(r.text.toks))>>
                 ELSE <<>>
        mOutT == IF r.outputText.some
                 THEN <<(<<StrTok("outputText"), P(":")>> \o Quoted(r.outputText.toks))>>
                 ELSE <<>>
        mOuts == IF r.outputs.some
                 THEN <<(<<StrTok("outputs"), P(":"), P("[")>>
                         \o SerializeItems(r.outputs.items, 1) \o <<P("]")>>)>>
                 ELSE <<>>
    IN <<P("{")>> \o JoinMembers(mValue \o mText \o mOutT \o mOuts, 1) \o <<P("}")>>

\* what one entry of response.outputs yields in extractRawText's scan
ItemText(it) ==
    CASE it.k \in {"text", "content_text", "content_str"} /\ it.toks # <<>> ->
            [some |-> TRUE, toks |-> it.toks]
      [] it.k = "content_json" /\ Truthy(it.j) ->
            [some |-> TRUE, toks |-> JSONstringify(it.j)]
      [] OTHER -> [some |-> FALSE, toks |-> <<>>]

RECURSIVE ScanOutputs(_, _)
ScanOutputs(items, i) ==
    IF i > Len(items) THEN [some |-> FALSE, toks |-> <<>>]
    ELSE IF ItemText(items[i]).some THEN ItemText(items[i])
    ELSE ScanOutputs(items, i + 1)

\* String(response ?? "") for a response that was not serialized
StringOfResponse(r) ==
    IF r.nil \in {"undefined", "null"} THEN <<>> ELSE <<Word("[object Object]")>>

\* geminiService.ts extractRawText(response): always a string
extractRawText(r) ==
    IF r.nil = "object" /\ r.text.k = "function" /\ r.text.ret = "string"
       /\ r.text.toks # <<>>
    THEN r.text.toks
    ELSE IF r.nil = "object" /\ r.text.k = "string" /\ r.text.toks # <<>>
    THEN r.text.toks
    ELSE IF r.nil = "object" /\ r.outputText.some /\ r.outputText.toks # <<>>
    THEN r.outputText.toks
    ELSE IF r.nil = "object" /\ r.outputs.some /\ ScanOutputs(r.outputs.items, 1).some
    THEN ScanOutputs(r.outputs.items, 1).toks
    ELSE IF r.nil = "null" THEN <<LitTok("null")>>
    ELSE IF r.nil = "undefined" \/ r.circular THEN StringOfResponse(r)
    ELSE SerializeResponse(r)

\* outputs.map(o => o?.text ?? JSON.stringify(o)).join("\n")
RECURSIVE JoinOutputs(_, _)
JoinOutputs(items, i) ==
    IF i > Len(items) THEN <<>>
    ELSE (IF items[i].k = "text" THEN items[i].toks ELSE SerializeItem(items[i]))
         \o (IF i < Len(items) THEN <<WS>> ELSE <<>>)
         \o JoinOutputs(items, i + 1)

\* decisionSherlock.ts.tsx lines 321-338: thrown = the catch block rethrows;
\* isString = FALSE when rawText ends up undefined
dsExtractText(r) ==
    LET str(toks) == [thrown |-> FALSE, isString |-> TRUE, toks |-> toks]
        throw == [thrown |-> TRUE, isString |-> FALSE, toks |-> <<>>]
    IN IF r.nil # "object" THEN throw
       ELSE IF Truthy(r.value) THEN str(JSONstringify(r.value))
       ELSE IF r.text.k = "function"
       THEN (CASE r.text.ret = "throws" -> throw
               [] r.text.ret = "undefined" ->
                    [thrown |-> FALSE, isString |-> FALSE, toks |-> <<>>]
               [] OTHER -> str(r.text.toks))
       ELSE IF r.text.k = "string" THEN str(r.text.toks)
       ELSE IF r.outputs.some THEN str(JoinOutputs(r.outputs.items, 1))
       ELSE IF r.circular THEN throw
       ELSE str(SerializeResponse(r))

-----------------------------------------------------------------------------
(* decisionSherlock.ts.tsx: the normalizer *)

\* v.k1 ?? v.k2 ?? ... ?? dflt
RECURSIVE Fallback(_, _, _)
Fallback(v, keys, dflt) ==
    IF keys = <<>> THEN dflt
    ELSE Coalesce(Prop(v, Head(keys)), Fallback(v, Tail(keys), dflt))

\* clampScore(n): a number of tenths that is a whole number in 0..100
clampScore(n) ==
    LET v == Number(IF Truthy(n) THEN n ELSE Num(0))
    IN IF v.t = "nan" THEN Num(0)
       ELSE IF v.n < 0 THEN Num(0)
       ELSE IF v.n > 100 * Scale THEN Num(100 * Scale)
       ELSE Num(MathRound(v.n))

\* ensureAnalysisArray(candidate): the elements of the array it returns
ensureAnalysisArray(candidate) ==
    IF ~Truthy(candidate) THEN <<>>
    ELSE IF ArrayIsArray(candidate) THEN candidate.kids
    ELSE IF Truthy(Prop(candidate, "analysis"))
            /\ ArrayIsArray(Prop(candidate, "analysis"))
    THEN Prop(candidate, "analysis").kids
    ELSE IF Truthy(Prop(candidate, "optionId"))
            /\ Truthy(Prop(candidate, "criteriaAnalysis"))
    THEN <<candidate>>
    ELSE <<>>

\* parsedRaw.analysis ?? parsedRaw.analysis ?? parsedRaw, for a parsedRaw
\* that is not null
rawAnalysis(parsed) ==
    ensureAnalysisArray(Coalesce(Prop(parsed, "analysis"),
                                 Coalesce(Prop(parsed, "analysis"), parsed)))

\* the criteria collection of one option record
caArray(a) ==
    LET rawCA == Fallback(a, <<"criteriaAnalysis", "criteria_analysis", "criteria">>,
                          Arr(<<>>))
    IN IF ArrayIsArray(rawCA) THEN rawCA.kids ELSE <<>>

\* one element of normalizedCA, for a ca that is not null
NormalizeCriterion(ca) ==
    Obj(<<"criteriaId", "score", "reasoning", "confidence">>,
        <<Fallback(ca, <<"criteriaId", "criteria_id", "criterionId", "id">>, Str("")),
          clampScore(Fallback(ca, <<"score", "sc", "value">>, ca)),
          Str(JSString(Fallback(ca, <<"reasoning", "reason", "notes">>, Str("")))),
          IF Prop(ca, "confidence").t # "undef"
          THEN clampScore(Prop(ca, "confidence")) ELSE Undef>>)

\* a.pros.map(String), with the synonym field as the fallback
StringList(a, key, synonym) ==
    LET strings(arr) == Arr([i \in 1..Len(arr.kids) |-> Str(JSString(arr.kids[i]))])
    IN IF ArrayIsArray(Prop(a, key)) THEN strings(Prop(a, key))
       ELSE IF ArrayIsArray(Prop(a, synonym)) THEN strings(Prop(a, synonym))
       ELSE Arr(<<>>)

\* the second pass over criteriaAnalysis (lines 430-437)
SecondPass(ca) ==
    Obj(<<"criteriaId", "score", "reasoning", "confidence">>,
        <<Coalesce(Prop(ca, "criteriaId"), Str("")),
          clampScore(Prop(ca, "score")),
          Coalesce(Prop(ca, "reasoning"), Str("")),
          IF Prop(ca, "confidence").t # "undef"
          THEN clampScore(Prop(ca, "confidence")) ELSE Undef>>)

\* a slip: the spelling id is tried first
NormalizeOptionIdFirst(a) ==
    Obj(<<"optionId", "criteriaAnalysis", "pros", "cons">>,
        <<Str(JSString(Fallback(a, <<"id", "optionId", "option_id", "opt_id">>,
                                Str("unknown")))),
          Arr([i \in 1..Len(caArray(a)) |->
                  SecondPass(NormalizeCriterion(caArray(a)[i]))]),
          StringList(a, "pros", "positives"),
          StringList(a, "cons", "negatives")>>)

\* one element of final.analysis, for an a that is not null
NormalizeOption(a) ==
    Obj(<<"optionId", "criteriaAnalysis", "pros", "cons">>,
        <<Str(JSString(Fallback(a, <<"optionId", "option_id", "opt_id", "id">>,
                                Str("unknown")))),
          Arr([i \in 1..Len(caArray(a)) |->
                  SecondPass(NormalizeCriterion(caArray(a)[i]))]),
          StringList(a, "pros", "positives"),
          StringList(a, "cons", "negatives")>>)

\* a property read of null or undefined: the TypeError of lines 385-413
NormalizeThrows(parsed) ==
    \/ Nullish(parsed)
    \/ \E i \in 1..Len(rawAnalysis(parsed)) :
          LET a == rawAnalysis(parsed)[i]
          IN \/ Nullish(a)
             \/ \E j \in 1..Len(caArray(a)) : Nullish(caArray(a)[j])

\* the winner identifier as lines 388-396 resolve it
ResolveWinner(parsed) ==
    Fallback(parsed, <<"winnerId", "winner_id", "winner">>, Str(""))

\* `final` as lines 388-437 build it
NormalizeResult(parsed) ==
    Obj(<<"analysis", "verdict", "winnerId", "recommendation",
          "summary", "topRisks", "nextSteps">>,
        <<Arr([i \in 1..Len(rawAnalysis(parsed)) |->
                  NormalizeOption(rawAnalysis(parsed)[i])]),
          Fallback(parsed, <<"verdict", "summary", "verdict_text">>, Str("")),
          ResolveWinner(parsed),
          Fallback(parsed, <<"recommendation", "advice">>, Str("")),
          Prop(parsed, "summary"),
          Fallback(parsed, <<"topRisks", "risks">>, Undef),
          Fallback(parsed, <<"nextSteps", "actions">>, Undef)>>)

-----------------------------------------------------------------------------
(* decisionSherlock.ts.tsx: winner inference *)

\* the scores of one normalized option, in tenths
Scores(opt) ==
    [i \in 1..Len(Prop(opt, "criteriaAnalysis").kids) |->
        Prop(Prop(opt, "criteriaAnalysis").kids[i], "score").n]

RECURSIVE Sum(_)
Sum(ns) == IF ns = <<>> THEN 0 ELSE Head(ns) + Sum(Tail(ns))

\* { optionId, avg }: avg is sum / len, kept as the fraction num / den
Average(opt) ==
    [optionId |-> Prop(opt, "optionId"),
     num |-> IF Scores(opt) = <<>> THEN 0 ELSE Sum(Scores(opt)),
     den |-> IF Scores(opt) = <<>> THEN 1 ELSE Len(Scores(opt))]

\* a slip: a comparator under which equal averages change places
SortsAfterOrTies(a, b) == b.num * a.den >= a.num * b.den

\* the comparator (a, b) => b.avg - a.avg is positive: a sorts after b
SortsAfter(a, b) == b.num * a.den > a.num * b.den

\* Array.prototype.sort, which is stable: x goes before the first element
\* that sorts after it
Insert(sorted, x) ==
    LET after == {i \in 1..Len(sorted) : SortsAfter(sorted[i], x)}
        at == IF after = {} THEN Len(sorted) + 1 ELSE Min(after)
    IN SubSeq(sorted, 1, at - 1) \o <<x>> \o SubSeq(sorted, at, Len(sorted))

RECURSIVE SortByAvg(_)
SortByAvg(items) ==
    IF items = <<>> THEN <<>>
    ELSE Insert(SortByAvg(SubSeq(items, 1, Len(items) - 1)), items[Len(items)])

SetProp(v, key, val) ==
    LET m == PutMember(v.keys, v.kids, key, val)
    IN [v EXCEPT !.keys = m.keys, !.kids = m.kids]

\* a slip: the test of the winner identifier left out of line 442
InferWinnerIdAlways(f) ==
    LET analysis == Prop(f, "analysis").kids
        candidate == SortByAvg([i \in 1..Len(analysis) |-> Average(analysis[i])])[1]
    IN IF Len(analysis) > 1
       THEN SetProp(f, "winnerId", candidate.optionId)
       ELSE f

\* lines 441-451
InferWinnerId(f) ==
    LET analysis == Prop(f, "analysis").kids
        candidate == SortByAvg([i \in 1..Len(analysis) |-> Average(analysis[i])])[1]
    IN IF ~Truthy(Prop(f, "winnerId")) /\ Len(analysis) > 1
       THEN SetProp(f, "winnerId", candidate.optionId)
       ELSE f

-----------------------------------------------------------------------------
(* geminiService.ts: lines 256-263 *)

\* reading parsed.analysis of null, or setting it on a primitive (the module
\* is strict code), is a TypeError
gsFinishThrows(parsed) == parsed.t \notin {"obj", "arr"}

\* an array keeps the new property beside its elements: "arrx" is that array,
\* its keys/kids the added properties
gsFinish(parsed) ==
    IF parsed.t = "arr"
    THEN JV("arrx", 0, "", <<"analysis">>, <<Arr(<<>>)>>)
    ELSE IF ArrayIsArray(Prop(parsed, "analysis")) THEN parsed
    ELSE SetProp(parsed, "analysis", Arr(<<>>))

-----------------------------------------------------------------------------
(* The raw model outputs the pipeline is run on.  A scenario records how   *)
(* the text of one response is put together:                               *)
(*   pre  [marker]  [leading fence]  body  [trailing fence]  post          *)
(* and in which shape of response object the text arrives.                 *)

\* the most option records in one generated analysis
MaxOptions == 2
\* the largest number, in tenths, clampScore is applied to directly
ClampSpan == 1020

OptionId(i) == "o" \o ToString(i)

Criterion(j, score) ==
    Obj(<<"criteriaId", "score", "reasoning">>,
        <<Str("c" \o ToString(j)), score, Str("x")>>)

Option(i, criteria) ==
    Obj(<<"optionId", "criteriaAnalysis", "pros", "cons">>,
        <<Str(OptionId(i)), Arr(criteria), Arr(<<>>), Arr(<<>>)>>)

\* the result object of the advertised schema; an Undef member is absent
Result(analysis, winner) ==
    Obj(<<"analysis", "verdict", "winnerId", "recommendation">>,
        <<analysis, Str("v"), winner, Str("r")>>)

\* score lists, in tenths, whose means are 0, 90, 72 and 90
MeanLists == {<<>>, <<900>>, <<720>>, <<1000, 800>>}

WinnerVals ==
    {Undef, Null, Str(""), Str("o1"), Str("o2"), Str("o9"), Num(0), Bool(FALSE)}

InferAnalyses ==
    UNION {[1..m -> MeanLists] : m \in 0..MaxOptions}

InferPayloads ==
    {Result(Arr([i \in 1..Len(ls) |->
                    Option(i, [j \in 1..Len(ls[i]) |-> Criterion(j, Num(ls[i][j]))])]),
            w) : ls \in InferAnalyses, w \in WinnerVals}

\* what a model may put where a score belongs
ScoreVals ==
    {Num(1500), Num(-10), Num(876), Num(500), Num(0), Str("abc"), Str("50"),
     Str(""), Bool(TRUE), Bool(FALSE), Null, Obj(<<>>, <<>>), Arr(<<>>),
     Arr(<<Num(1500)>>)}

\* entries of a criteriaAnalysis array
CriteriaEntries ==
    {Criterion(1, x) : x \in ScoreVals}
    \cup {Num(550),
          Str("abc"),
          Obj(<<"criteria_id", "sc", "reason">>, <<Str("c1"), Num(1500), Str("x")>>),
          Obj(<<"id", "value">>, <<Str("c1"), Num(-10)>>),
          Obj(<<"criteriaId", "reasoning">>, <<Str("c1"), Str("x")>>),
          Obj(<<"criteriaId", "score", "confidence">>,
              <<Str("c1"), Num(876), Num(1500)>>)}

ClampPayloads ==
    {Result(Arr(<<Option(1, <<e>>)>>), Str("o1")) : e \in CriteriaEntries}

GoodPayload ==
    Result(Arr(<<Option(1, <<Criterion(1, Num(1500))>>)>>), Str("o1"))

\* payloads that do not have the advertised shape
ShapePayloads ==
    {Null, Num(500), Str("abc"), Bool(TRUE), Arr(<<>>),
     Arr(<<Option(1, <<Criterion(1, Num(1500))>>)>>),
     Obj(<<>>, <<>>),
     Option(1, <<Criterion(1, Num(1500))>>),
     Result(Option(1, <<Criterion(1, Num(1500))>>), Undef),
     Result(Obj(<<"option_id", "criteria">>,
                <<Str("o1"), Arr(<<Criterion(1, Num(876))>>)>>), Undef),
     Result(Null, Str("o1")),
     Result(Num(500), Str("o1")),
     Result(Arr(<<Null>>), Undef),
     Result(Arr(<<Num(500)>>), Undef),
     Result(Arr(<<Option(1, <<Null>>)>>), Undef),
     Result(Arr(<<Obj(<<"option_id", "criteria">>,
                      <<Num(70), Arr(<<Criterion(1, Num(876))>>)>>)>>), Undef),
     Result(Arr(<<Obj(<<"criteriaAnalysis">>, <<Num(500)>>)>>), Undef),
     Obj(<<"analysis", "summary", "winner", "advice">>,
         <<Arr(<<>>), Num(10), Obj(<<>>, <<>>), Arr(<<>>)>>),
     Result(Arr(<<Obj(<<"opt_id", "criteria_analysis">>,
                      <<Str("o3"), Arr(<<Criterion(1, Num(500))>>)>>),
                  Obj(<<"id", "optionId">>, <<Str("o4"), Bool(FALSE)>>)>>), Str("o3")),
     Result(Arr(<<Obj(<<"optionId", "id", "option_id", "criteriaAnalysis", "criteria">>,
                      <<Null, Str("o6"), Str("o5"), Null, Str("none")>>),
                  Obj(<<"pros">>, <<Arr(<<>>)>>),
                  Obj(<<"id", "criteria">>,
                      <<Str(""), Obj(<<"c1">>, <<Num(500)>>)>>)>>), Str("o5")),
     Obj(<<"analysis", "verdict", "summary", "verdict_text", "winnerId", "winner_id",
           "advice">>,
         <<Arr(<<>>), Null, Str("s"), Str("t"), Null, Str("o7"), Str("a")>>),
     Obj(<<"analysis", "verdict_text", "winner", "recommendation", "advice">>,
         <<Arr(<<>>), Str("t"), Str("o8"), Str(""), Str("a")>>)}

Scenario(fam, payload, pre, marker, lead, trail, post, style, shape) ==
    [fam |-> fam, payload |-> payload, pre |-> pre, marker |-> marker,
     lead |-> lead, trail |-> trail, post |-> post, style |-> style,
     shape |-> shape]

NoScenario ==
    Scenario("none", Undef, <<>>, FALSE, "none", FALSE, <<>>, "empty", "undefined")

Plain(fam, payload) ==
    Scenario(fam, payload, <<>>, TRUE, "none", FALSE, <<>>, "compact", "text_string")

Leads == {"none", "json", "JSON", "bare", "js", "json+bare", "bare+json"}
Styles == {"compact", "trailing", "pretty", "broken", "empty", "reversed"}
Pres == {<<>>, <<Word("Here"), WS>>, <<P("{"), Word("note"), P("}"), WS>>}
Posts == {<<>>, <<WS>>, <<WS, Word("Done")>>, <<WS, MARKER, WS, P("{"), P("}")>>}

\* a payload that is an array, not an object
ArrayPayload == Arr(<<Option(1, <<Criterion(1, Num(900))>>)>>)

Shapes ==
    {"text_string", "text_fn", "fn_throws", "fn_throws_outputText", "fn_undefined",
     "outputText", "outputs_text", "outputs_content", "outputs_json", "value",
     "undefined", "null", "circular", "empty",
     "value_text_fn", "text_outputText_outputs", "outputText_outputs"}

Scenarios ==
    {Plain("infer", p) : p \in InferPayloads}
    \cup {Plain("clamp", p) : p \in ClampPayloads}
    \cup {Plain("shape", p) : p \in ShapePayloads}
    \cup {Scenario("wrap", GoodPayload, pre, m, lead, trail, post, style, "text_string") :
            pre \in Pres, m \in BOOLEAN, lead \in Leads,
            trail \in BOOLEAN, post \in Posts, style \in Styles}
    \cup {Scenario("wrap", ArrayPayload, <<>>, TRUE, lead, trail, <<>>, style,
                    "text_string") :
            lead \in Leads, trail \in BOOLEAN, style \in Styles}
    \cup {Scenario("resp", GoodPayload, <<>>, TRUE, "none", FALSE, <<>>, style, shape) :
            style \in {"compact", "empty"}, shape \in Shapes}

LeadToks(lead) ==
    CASE lead = "json" -> <<FENCE, Word("json"), WS>>
      [] lead = "JSON" -> <<FENCE, Word("JSON"), WS>>
      [] lead = "bare" -> <<FENCE, WS>>
      [] lead = "js" -> <<FENCE, Word("js"), WS>>
      [] lead = "json+bare" -> <<FENCE, Word("json"), WS, FENCE, WS>>
      [] lead = "bare+json" -> <<FENCE, WS, FENCE, Word("json"), WS>>
      [] OTHER -> <<>>

IsOpener(tk) == tk \in {P("{"), P("[")}
IsCloser(tk) == tk \in {P("}"), P("]")}

\* a comma and a blank before every closing brace or bracket of a non-empty
\* object or array
AddTrailingCommas(toks) ==
    LET at == {i \in 2..Len(toks) : IsCloser(toks[i]) /\ ~IsOpener(toks[i - 1])}
        pos(i) == i + 2 * Cardinality({j \in at : j <= i})
    IN [k \in 1..(Len(toks) + 2 * Cardinality(at)) |->
          IF \E i \in 1..Len(toks) : pos(i) = k
          THEN toks[CHOOSE i \in 1..Len(toks) : pos(i) = k]
          ELSE IF \E i \in at : pos(i) = k + 2 THEN P(",") ELSE WS]

\* a blank after every brace, bracket, comma and colon
AddBlanks(toks) ==
    LET at == {i \in 1..(Len(toks) - 1) : toks[i].k = "p"}
        pos(i) == i + Cardinality({j \in at : j < i})
    IN [k \in 1..(Len(toks) + Cardinality(at)) |->
          IF \E i \in 1..Len(toks) : pos(i) = k
          THEN toks[CHOOSE i \in 1..Len(toks) : pos(i) = k]
          ELSE WS]

\* the payload as the model wrote it
Body(sc) ==
    LET compact == JSONstringify(sc.payload)
    IN CASE sc.style = "compact" -> compact
         [] sc.style = "trailing" -> AddTrailingCommas(compact)
         [] sc.style = "pretty" -> AddBlanks(compact)
         [] sc.style = "broken" -> SubSeq(compact, 1, Len(compact) - 1)
         [] sc.style = "reversed" -> <<P("}"), Word("x"), P("{")>>
         [] OTHER -> <<>>

\* what follows the first marker of the text (the text itself without one)
AfterMarker(sc) ==
    LeadToks(sc.lead) \o Body(sc)
    \o (IF sc.trail THEN <<WS, FENCE>> ELSE <<>>) \o sc.post

BuildText(sc) ==
    sc.pre \o (IF sc.marker THEN <<MARKER, WS>> ELSE <<>>) \o AfterMarker(sc)

BuildResponse(sc) ==
    LET t == BuildText(sc)
        fn(ret) == [k |-> "function", ret |-> ret, toks |-> t]
        field == [some |-> TRUE, toks |-> t]
        outs(items) == [some |-> TRUE, items |-> items]
        obj(value, text, outputText, outputs) ==
            Response("object", value, text, outputText, outputs, FALSE)
        other == <<Word("other")>>
    IN CASE sc.shape = "text_string" ->
                obj(Undef, [k |-> "string", ret |-> "string", toks |-> t],
                    NoField, NoOutputs)
         [] sc.shape = "text_fn" -> obj(Undef, fn("string"), NoField, NoOutputs)
         [] sc.shape = "fn_throws" -> obj(Undef, fn("throws"), NoField, NoOutputs)
         [] sc.shape = "fn_throws_outputText" ->
                obj(Undef, fn("throws"), field, NoOutputs)
         [] sc.shape = "fn_undefined" -> obj(Undef, fn("undefined"), NoField, NoOutputs)
         [] sc.shape = "outputText" -> obj(Undef, NoText, field, NoOutputs)
         [] sc.shape = "outputs_text" ->
                obj(Undef, NoText, NoField,
                    outs(<<Item("null", <<>>, Undef), Item("text", t, Undef)>>))
         [] sc.shape = "outputs_content" ->
                obj(Undef, NoText, NoField, outs(<<Item("content_text", t, Undef)>>))
         [] sc.shape = "outputs_json" ->
                obj(Undef, NoText, NoField,
                    outs(<<Item("content_json", <<>>, sc.payload)>>))
         [] sc.shape = "value" -> obj(sc.payload, NoText, NoField, NoOutputs)
         [] sc.shape = "value_text_fn" ->
                obj(Str("other"), fn("string"), NoField, NoOutputs)
         [] sc.shape = "text_outputText_outputs" ->
                obj(Undef, [k |-> "string", ret |-> "string", toks |-> t],
                    [some |-> TRUE, toks |-> other],
                    outs(<<Item("text", other, Undef)>>))
         [] sc.shape = "outputText_outputs" ->
                obj(Undef, NoText, field, outs(<<Item("text", other, Undef)>>))
         [] sc.shape = "undefined" ->
                Response("undefined", Undef, NoText, NoField, NoOutputs, FALSE)
         [] sc.shape = "null" ->
                Response("null", Undef, NoText, NoField, NoOutputs, FALSE)
         [] sc.shape = "circular" ->
                Response("object", Undef, NoText, NoField, NoOutputs, TRUE)
         [] OTHER -> EmptyObject

\* the arguments of the direct calls of clampScore
ClampArgs ==
    ScoreVals \cup {Undef, NaN, Str("87.6"), Str("150"), Str("-1"),
                    Arr(<<Num(500)>>), Arr(<<Num(1), Num(2)>>),
                    Obj(<<"score">>, <<Num(500)>>)}
    \cup {Num(n) : n \in (-20)..ClampSpan}

-----------------------------------------------------------------------------
(* The wizard (App), which imports analyzeDecision from geminiService *)

AppState(step, error, result) == [step |-> step, error |-> error, result |-> result]

\* error: string | null
NoError == [isNull |-> TRUE, message |-> ""]
ErrorMessage(m) == [isNull |-> FALSE, message |-> m]

\* e.message of what analyzeDecision rejects with; an error of the SDK may
\* have an empty message
Messages(e) ==
    IF e = "ModelInvocationFailure" THEN {"", "503 Service Unavailable"} ELSE {e}

DefaultMessage == "Sherlock encountered an error analyzing the evidence."

\* a result an earlier analysis stored
EarlierResult == Result(Arr(<<>>), Str(""))

\* the wizard at the Options step: fresh, or back there after an earlier
\* analysis that failed (its message is shown) or succeeded (its result is
\* still in the state)
AppAtOptionsStep ==
    {AppState(3, e, r) : e \in {NoError, ErrorMessage("NoJsonFound")},
                         r \in {Null, EarlierResult}}

NoRequest == [options |-> <<>>, contents |-> <<>>]

\* INITIAL_STATE without result: null (a criterion's weight plays no part and
\* is left out)
INITIAL_STATE ==
    [title |-> "", description |-> "",
     criteria |-> <<[id |-> "c1", name |-> "Cost / Salary"],
                    [id |-> "c2", name |-> "Long-term Benefit"],
                    [id |-> "c3", name |-> "Enjoyment"]>>,
     options |-> <<[id |-> "o1", name |-> "Option A", description |-> "",
                    attachments |-> <<>>],
                   [id |-> "o2", name |-> "Option B", description |-> "",
                    attachments |-> <<>>]>>]

-----------------------------------------------------------------------------
(* decisionSherlock.ts.tsx: the request.  A text is a sequence of lines, a  *)
(* line a sequence of pieces: the literal parts of a template and the      *)
(* values put into it.                                                     *)

\* the most attachments of one option
MaxAttachments == 2

Attachment(name, mimeType, data) == [name |-> name, mimeType |-> mimeType, data |-> data]

AttachmentPool ==
    {Attachment("a.png", "image/png", "base64-of-a"),
     Attachment("", "application/pdf", "base64-of-b")}

\* hasList = FALSE: the option has no attachments property
OptionItem(id, hasList, attachments) ==
    [id |-> id, name |-> "Option " \o id, description |-> "",
     hasList |-> hasList, attachments |-> attachments]

AttachmentLists == UNION {[1..n -> AttachmentPool] : n \in 0..MaxAttachments}

OptionLists ==
    UNION {{[i \in 1..m |-> OptionItem(OptionId(i), f[i].hasList, f[i].attachments)] :
              f \in [1..m -> {[hasList |-> FALSE, attachments |-> <<>>]}
                             \cup {[hasList |-> TRUE, attachments |-> a] :
                                      a \in AttachmentLists}]} :
           m \in 0..MaxOptions}

\* the rest of the DecisionState handed to analyzeDecision
DecisionData(options) ==
    [title |-> "", description |-> "Which offer?",
     criteria |-> <<[id |-> "c1", name |-> "Cost / Salary", weight |-> "8"]>>,
     options |-> options]

\* a || b for strings
OrElse(a, b) == IF a = "" THEN b ELSE a

\* the lines buildUserPrompt pushes for one option
OptionLines(opt) ==
    <<(<<"--- Option ID: ", opt.id, " ---">>),
      (<<"Name: ", opt.name>>),
      (<<"Description: ", OrElse(opt.description, "")>>)>>
    \o [j \in 1..(IF opt.hasList THEN Len(opt.attachments) ELSE 0) |->
           <<"(Attachment: ", OrElse(opt.attachments[j].name, "file"),
             ", type: ", opt.attachments[j].mimeType, ")">>]
    \o <<(<<"">>)>>

RECURSIVE AllOptionLines(_, _)
AllOptionLines(options, i) ==
    IF i > Len(options) THEN <<>>
    ELSE OptionLines(options[i]) \o AllOptionLines(options, i + 1)

\* buildUserPrompt(data), before lines.join
buildUserPrompt(data) ==
    <<(<<"Decision: ", OrElse(data.title, "Untitled decision")>>),
      (<<"Context: ", OrElse(data.description, "No additional context provided.")>>),
      (<<"">>),
      (<<"Criteria (ID | Name | Weight 1-10):">>)>>
    \o [k \in 1..Len(data.criteria) |->
           <<"- ", data.criteria[k].id, " | ", data.criteria[k].name, " | ",
             data.criteria[k].weight>>]
    \o <<(<<"">>), (<<"Options:">>)>>
    \o AllOptionLines(data.options, 1)
    \o <<(<<"Task: Score each option against each criteria (0-100).">>)>>

TextPart(lines) ==
    [k |-> "text", text |-> lines, mimeType |-> "", data |-> "", name |-> ""]

InlineDataPart(mimeType, data, name) ==
    [k |-> "inlineData", text |-> <<>>, mimeType |-> mimeType, data |-> data,
     name |-> name]

Block(role, parts) == [role |-> role, parts |-> parts]

\* a slip: only the first attachment of an option is pushed
OptionFirstAttachmentBlock(opt) ==
    IF opt.hasList /\ Len(opt.attachments) > 0
    THEN <<Block("user",
                 <<InlineDataPart(opt.attachments[1].mimeType, opt.attachments[1].data,
                                  OrElse(opt.attachments[1].name, "attachment")),
                   TextPart(<<(<<"(Attachment for option ", opt.id, ": ",
                                 OrElse(opt.attachments[1].name, "attachment"), ")">>)>>)>>)>>
    ELSE <<>>

\* the blocks lines 275-286 push for one option
OptionAttachmentBlocks(opt) ==
    [j \in 1..(IF opt.hasList THEN Len(opt.attachments) ELSE 0) |->
        Block("user",
              <<InlineDataPart(opt.attachments[j].mimeType, opt.attachments[j].data,
                               OrElse(opt.attachments[j].name, "attachment")),
                TextPart(<<(<<"(Attachment for option ", opt.id, ": ",
                              OrElse(opt.attachments[j].name, "attachment"), ")">>)>>)>>)]

RECURSIVE AttachmentBlocks(_, _)
AttachmentBlocks(options, i) ==
    IF i > Len(options) THEN <<>>
    ELSE OptionAttachmentBlocks(options[i]) \o AttachmentBlocks(options, i + 1)

SystemBlock == Block("system", <<TextPart(<<(<<"createSystemPrompt()">>)>>)>>)

FinalInstruction ==
    Block("user", <<TextPart(<<(<<"Analyze all evidence and score each option.">>)>>)>>)

\* lines 257-298: contents
BuildContents(data) ==
    <<SystemBlock, Block("user", <<TextPart(buildUserPrompt(data))>>)>>
    \o AttachmentBlocks(data.options, 1)
    \o <<FinalInstruction>>

-----------------------------------------------------------------------------
(* analyzeDecision, one action per step *)

NoRawText == [isString |-> FALSE, toks |-> <<>>]

Init ==
    /\ impl \in {"ds", "gs"}
    /\ IF impl = "gs"
       THEN pc = "idle" /\ app \in AppAtOptionsStep
       ELSE pc = "start" /\ app = AppState(0, NoError, Null)
    /\ request = NoRequest
    /\ env \in {"", "env-key"}
    /\ globalKey \in {"", "global-key"}
    /\ apiKey = ""
    /\ decision = INITIAL_STATE
    /\ analyses = {}
    /\ uploads = {}
    /\ scenario = NoScenario
    /\ response = BuildResponse(NoScenario)
    /\ rawText = NoRawText
    /\ jsonCandidate = <<>>
    /\ tier = 0
    /\ parsedRaw = Undef
    /\ normalized = Undef
    /\ final = Undef
    /\ err = ""
    /\ modelCalls = 0
    /\ clampArg = Undef
    /\ clampRes = Undef

\* a slip: a failure that starts the invocation over
FailAndRetry(e) == pc' = "start" /\ err' = e

Fail(e) == pc' = "failed" /\ err' = e

\* a slip: the fallback is never read
KeyAfterCheckEnvOnly == env

\* process.env.API_KEY after the key check at the head of analyzeDecision
\* (decisionSherlock lines 245-253, geminiService lines 94-96); "" when the
\* check throws
KeyAfterCheck ==
    IF env # "" THEN env
    ELSE IF impl = "ds" THEN globalKey
    ELSE ""

\* the key check throws
MissingApiKey ==
    /\ pc = "start"
    /\ KeyAfterCheck = ""
    /\ Fail("MissingApiKey")
    /\ UNCHANGED <<decision, analyses, uploads, env, globalKey, apiKey, app, request, impl, scenario, response, rawText,
                   jsonCandidate, tier, parsedRaw, normalized, final, modelCalls,
                   clampArg, clampRes>>

\* the key check passes: new GoogleGenAI({ apiKey: process.env.API_KEY })
CreateClient ==
    /\ KeyAfterCheck # ""
    /\ env' = KeyAfterCheck
    /\ apiKey' = KeyAfterCheck
    /\ globalKey' = globalKey

\* the responses are enumerated in full when the key comes from the
\* environment alone; under the other configurations of the keys the model
\* answers with the advertised payload
ScenariosUnderKeys ==
    IF env # "" /\ globalKey = "" THEN Scenarios
    ELSE {Plain("resp", GoodPayload)}

\* await ai.models.generateContent(...) resolves
CallModel ==
    /\ pc = "start"
    /\ CreateClient
    /\ \E sc \in ScenariosUnderKeys :
          /\ scenario' = sc
          /\ response' = BuildResponse(sc)
    /\ modelCalls' = modelCalls + 1
    /\ pc' = "called"
    /\ UNCHANGED <<decision, analyses, uploads, app, request, impl, rawText, jsonCandidate, tier, parsedRaw, normalized,
                   final, err, clampArg, clampRes>>

\* a slip: a catch block that logs and does not rethrow
ModelCallFailsSwallowed ==
    /\ pc = "start"
    /\ CreateClient
    /\ modelCalls' = modelCalls + 1
    /\ pc' = "called"
    /\ UNCHANGED <<decision, analyses, uploads, app, request, impl, scenario, response, rawText, jsonCandidate, tier,
                   parsedRaw, normalized, final, err, clampArg, clampRes>>

\* await ai.models.generateContent(...) rejects: the catch block rethrows
ModelCallFails ==
    /\ pc = "start"
    /\ CreateClient
    /\ modelCalls' = modelCalls + 1
    /\ Fail("ModelInvocationFailure")
    /\ UNCHANGED <<decision, analyses, uploads, app, request, impl, scenario, response, rawText, jsonCandidate, tier,
                   parsedRaw, normalized, final, clampArg, clampRes>>

\* decisionSherlock lines 321-340, geminiService line 213
ExtractText ==
    /\ pc = "called"
    /\ IF impl = "gs"
       THEN /\ rawText' = [isString |-> TRUE, toks |-> extractRawText(response)]
            /\ pc' = "text"
            /\ err' = err
       ELSE LET x == dsExtractText(response)
            IN IF x.thrown
               THEN Fail("ExtractFailed") /\ rawText' = rawText
               ELSE IF ~x.isString
               THEN Fail("TypeError: rawText") /\ rawText' = rawText
               ELSE /\ rawText' = [isString |-> TRUE, toks |-> x.toks]
                    /\ pc' = "text"
                    /\ err' = err
    /\ UNCHANGED <<decision, analyses, uploads, env, globalKey, apiKey, app, request, impl, scenario, response, jsonCandidate, tier, parsedRaw,
                   normalized, final, modelCalls, clampArg, clampRes>>

\* decisionSherlock lines 343-356: jsonCandidate (<<>> also stands for null)
dsCandidate(text) ==
    IF IndexOfMarker(text) # 0
    THEN StripFences(Trim(SubSeq(text, IndexOfMarker(text) + 1, Len(text))))
    ELSE BraceBlock(text).toks

\* geminiService lines 219-244: cleaned
gsCandidate(text) ==
    IF IndexOfMarker(text) # 0
    THEN StripFences(Trim(SubSeq(text, IndexOfMarker(text) + 1, Len(text))))
    ELSE StripFences(BraceBlock(text).toks)

\* geminiService lines 221-228: the only throw before JSON.parse
gsNoJson(text) == IndexOfMarker(text) = 0 /\ ~BraceBlock(text).some

\* a slip: the text accessor is not awaited, so that the extraction of the
\* JSON can run on the text there is so far
ExtractJsonUnawaited ==
    /\ pc \in {"called", "text"}
    /\ IF (impl = "ds" /\ dsCandidate(rawText.toks) = <<>>)
          \/ (impl = "gs" /\ gsNoJson(rawText.toks))
       THEN Fail("NoJsonFound") /\ jsonCandidate' = jsonCandidate
       ELSE /\ jsonCandidate' = IF impl = "ds" THEN dsCandidate(rawText.toks)
                                ELSE gsCandidate(rawText.toks)
            /\ pc' = "candidate"
            /\ err' = err
    /\ UNCHANGED <<decision, analyses, uploads, env, globalKey, apiKey, app, request, impl, scenario, response, rawText, tier, parsedRaw,
                   normalized, final, modelCalls, clampArg, clampRes>>

\* decisionSherlock lines 343-361, geminiService lines 219-246
ExtractJson ==
    /\ pc = "text"
    /\ IF impl = "ds"
       THEN IF dsCandidate(rawText.toks) = <<>>
            THEN Fail("NoJsonFound") /\ jsonCandidate' = jsonCandidate
            ELSE /\ jsonCandidate' = dsCandidate(rawText.toks)
                 /\ pc' = "candidate"
                 /\ err' = err
       ELSE IF gsNoJson(rawText.toks)
            THEN Fail("NoJsonFound") /\ jsonCandidate' = jsonCandidate
            ELSE /\ jsonCandidate' = gsCandidate(rawText.toks)
                 /\ pc' = "candidate"
                 /\ err' = err
    /\ UNCHANGED <<decision, analyses, uploads, env, globalKey, apiKey, app, request, impl, scenario, response, rawText, tier, parsedRaw, normalized,
                   final, modelCalls, clampArg, clampRes>>

\* decisionSherlock lines 363-370, geminiService lines 248-254
ParseJson ==
    /\ pc = "candidate"
    /\ LET r == IF impl = "ds" THEN safeParseJSON(jsonCandidate)
                ELSE [ok |-> JSONparse(jsonCandidate).ok,
                      v |-> JSONparse(jsonCandidate).v,
                      tier |-> IF JSONparse(jsonCandidate).ok THEN 1 ELSE 0]
       IN IF r.ok
          THEN /\ parsedRaw' = r.v
               /\ tier' = r.tier
               /\ pc' = "parsed"
               /\ err' = err
          ELSE /\ Fail("InvalidJson")
               /\ UNCHANGED <<decision, analyses, uploads, env, globalKey, apiKey, parsedRaw, tier>>
    /\ UNCHANGED <<decision, analyses, uploads, env, globalKey, apiKey, app, request, impl, scenario, response, rawText, jsonCandidate, normalized,
                   final, modelCalls, clampArg, clampRes>>

\* decisionSherlock lines 375-437; geminiService lines 256-263, which return
Normalize ==
    /\ pc = "parsed"
    /\ IF impl = "ds"
       THEN IF NormalizeThrows(parsedRaw)
            THEN Fail("TypeError: normalize") /\ UNCHANGED <<decision, analyses, uploads, env, globalKey, apiKey, normalized, final>>
            ELSE /\ normalized' = NormalizeResult(parsedRaw)
                 /\ pc' = "normalized"
                 /\ UNCHANGED <<decision, analyses, uploads, env, globalKey, apiKey, final, err>>
       ELSE IF gsFinishThrows(parsedRaw)
            THEN Fail("TypeError: normalize") /\ UNCHANGED <<decision, analyses, uploads, env, globalKey, apiKey, normalized, final>>
            ELSE /\ final' = gsFinish(parsedRaw)
                 /\ pc' = "done"
                 /\ UNCHANGED <<decision, analyses, uploads, env, globalKey, apiKey, normalized, err>>
    /\ UNCHANGED <<decision, analyses, uploads, env, globalKey, apiKey, app, request, impl, scenario, response, rawText, jsonCandidate, tier,
                   parsedRaw, modelCalls, clampArg, clampRes>>

\* decisionSherlock lines 441-454
InferWinner ==
    /\ pc = "normalized"
    /\ final' = InferWinnerId(normalized)
    /\ pc' = "done"
    /\ UNCHANGED <<decision, analyses, uploads, env, globalKey, apiKey, app, request, impl, scenario, response, rawText, jsonCandidate, tier,
                   parsedRaw, normalized, err, modelCalls, clampArg, clampRes>>

\* handleAnalyze up to the call of analyzeDecision
HandleAnalyze ==
    /\ pc = "idle"
    /\ app' = [app EXCEPT !.step = 4, !.error = NoError]
    /\ pc' = "start"
    /\ UNCHANGED <<decision, analyses, uploads, env, globalKey, apiKey, request, impl, scenario, response, rawText, jsonCandidate, tier,
                   parsedRaw, normalized, final, err, modelCalls, clampArg, clampRes>>

\* handleAnalyze after analyzeDecision resolved
StoreResult ==
    /\ pc = "done" /\ impl = "gs"
    /\ app' = [app EXCEPT !.result = final, !.step = 5]
    /\ pc' = "stored"
    /\ UNCHANGED <<decision, analyses, uploads, env, globalKey, apiKey, request, impl, scenario, response, rawText, jsonCandidate, tier,
                   parsedRaw, normalized, final, err, modelCalls, clampArg, clampRes>>

\* a slip: setStep(5) moved behind the try statement
ShowErrorThenResults ==
    /\ pc = "failed" /\ impl = "gs"
    /\ \E m \in Messages(err) :
          app' = [app EXCEPT !.error = ErrorMessage(IF m = "" THEN DefaultMessage ELSE m),
                             !.step = 5]
    /\ pc' = "reported"
    /\ UNCHANGED <<decision, analyses, uploads, env, globalKey, apiKey, request, impl, scenario, response, rawText, jsonCandidate, tier,
                   parsedRaw, normalized, final, err, modelCalls, clampArg, clampRes>>

\* handleAnalyze's catch block
ShowError ==
    /\ pc = "failed" /\ impl = "gs"
    /\ \E m \in Messages(err) :
          app' = [app EXCEPT !.error = ErrorMessage(IF m = "" THEN DefaultMessage ELSE m),
                             !.step = 3]
    /\ pc' = "reported"
    /\ UNCHANGED <<decision, analyses, uploads, env, globalKey, apiKey, request, impl, scenario, response, rawText, jsonCandidate, tier,
                   parsedRaw, normalized, final, err, modelCalls, clampArg, clampRes>>

\* lines 257-298 of analyzeDecision, run on their own; the option lists are
\* enumerated in full when the key comes from the environment alone
BuildRequest ==
    /\ pc = "start" /\ impl = "ds"
    /\ CreateClient
    /\ \E options \in (IF env # "" /\ globalKey = "" THEN OptionLists
                        ELSE {<<OptionItem("o1", TRUE, <<>>)>>}) :
          request' = [options |-> options,
                      contents |-> BuildContents(DecisionData(options))]
    /\ pc' = "built"
    /\ UNCHANGED <<decision, analyses, uploads, app, impl, scenario, response, rawText, jsonCandidate, tier,
                   parsedRaw, normalized, final, err, modelCalls, clampArg, clampRes>>

\* clampScore(n), called on its own
ClampScoreCall ==
    /\ pc = "start"
    /\ impl = "ds"
    /\ \E n \in ClampArgs :
          /\ clampArg' = n
          /\ clampRes' = clampScore(n)
    /\ pc' = "clamped"
    /\ UNCHANGED <<decision, analyses, uploads, env, globalKey, apiKey, app, request, impl, scenario, response, rawText, jsonCandidate, tier,
                   parsedRaw, normalized, final, err, modelCalls>>

Next ==
    \/ MissingApiKey
    \/ CallModel
    \/ ModelCallFails
    \/ ExtractText
    \/ ExtractJson
    \/ ParseJson
    \/ Normalize
    \/ InferWinner
    \/ ClampScoreCall
    \/ BuildRequest
    \/ HandleAnalyze
    \/ StoreResult
    \/ ShowError

Spec == Init /\ [][Next]_vars


-----------------------------------------------------------------------------
(* The wizard (App) with its asynchronous handlers.  A handler reads the   *)
(* `state` of the render it was made in; setState with a function, as in   *)
(* updateState, merges into the state of the moment it runs.               *)

\* the most criteria and options the wizard is taken to
MaxCriteria == 4
MaxWizardOptions == 3
\* the most analyzeDecision calls and file uploads pending at a time
MaxInFlight == 1
MaxUploads == 2
\* the size limit of an uploaded file and the sizes of the files, in MB
MAX_SIZE == 4

\* the wizard at the Options step, after Start New Investigation, a typed
\* title and Next twice (every step is reached from there)
WizardInit ==
    /\ impl = "gs" /\ pc = "idle"
    /\ app = AppState(3, NoError, Null)
    /\ decision = [INITIAL_STATE EXCEPT !.title = "Which flat?"]
    /\ analyses = {} /\ uploads = {}
    /\ request = NoRequest
    /\ env = "env-key" /\ globalKey = "" /\ apiKey = ""
    /\ scenario = NoScenario
    /\ response = BuildResponse(NoScenario)
    /\ rawText = NoRawText
    /\ jsonCandidate = <<>>
    /\ tier = 0
    /\ parsedRaw = Undef /\ normalized = Undef /\ final = Undef
    /\ err = "" /\ modelCalls = 0
    /\ clampArg = Undef /\ clampRes = Undef

\* the controls that only call setStep: the navbar logo, Next and Back of
\* the steps 1 to 3, Back of the Results
Navigate ==
    /\ \/ app' = [app EXCEPT !.step = 0]
       \/ app.step = 1 /\ decision.title # "" /\ app' = [app EXCEPT !.step = 2]
       \/ app.step = 2 /\ app' = [app EXCEPT !.step = 1]
       \/ /\ app.step = 2
          /\ \A i \in 1..Len(decision.criteria) : decision.criteria[i].name # ""
          /\ app' = [app EXCEPT !.step = 3]
       \/ app.step = 3 /\ app' = [app EXCEPT !.step = 2]
       \/ app.step = 5 /\ app' = [app EXCEPT !.step = 3]
    /\ UNCHANGED <<decision, analyses, uploads, impl, pc, scenario, response, rawText, jsonCandidate, tier,
                   parsedRaw, normalized, final, err, modelCalls, clampArg, clampRes,
                   request, env, globalKey, apiKey>>

\* applyTemplate(TEMPLATES[0])
applyTemplate ==
    /\ app.step = 0
    /\ decision' = [INITIAL_STATE EXCEPT
                       !.title = "Job Offer A vs Job Offer B",
                       !.criteria = <<[id |-> "k1", name |-> "Salary"],
                                      [id |-> "k2", name |-> "Culture"],
                                      [id |-> "k3", name |-> "Growth"],
                                      [id |-> "k4", name |-> "Commute"]>>]
    /\ app' = [app EXCEPT !.result = Null, !.step = 1]
    /\ UNCHANGED <<analyses, uploads, impl, pc, scenario, response, rawText, jsonCandidate, tier,
                   parsedRaw, normalized, final, err, modelCalls, clampArg, clampRes,
                   request, env, globalKey, apiKey>>

\* setState(INITIAL_STATE): Start New Investigation, and onReset of the
\* Results
ResetState ==
    /\ \/ app.step = 0 /\ app' = [app EXCEPT !.result = Null, !.step = 1]
       \/ app.step = 5 /\ app' = [app EXCEPT !.result = Null, !.step = 0]
    /\ decision' = INITIAL_STATE
    /\ UNCHANGED <<analyses, uploads, impl, pc, scenario, response, rawText, jsonCandidate, tier,
                   parsedRaw, normalized, final, err, modelCalls, clampArg, clampRes,
                   request, env, globalKey, apiKey>>

\* the title input of step 1
EditTitle ==
    /\ app.step = 1
    /\ \E t \in {"", "Which flat?"} : decision' = [decision EXCEPT !.title = t]
    /\ UNCHANGED <<app, analyses, uploads, impl, pc, scenario, response, rawText, jsonCandidate, tier,
                   parsedRaw, normalized, final, err, modelCalls, clampArg, clampRes,
                   request, env, globalKey, apiKey>>

\* addCriteria, updateCriteria with an emptied name and removeCriteria, on
\* the last criterion
EditCriteria ==
    /\ app.step = 2
    /\ LET n == Len(decision.criteria)
       IN \/ /\ n < MaxCriteria
             /\ decision' = [decision EXCEPT
                                !.criteria = Append(@, [id |-> "g" \o ToString(n + 1),
                                                        name |-> ""])]
          \/ decision' = [decision EXCEPT !.criteria[n].name = ""]
          \/ /\ n > 1
             /\ decision' = [decision EXCEPT !.criteria = SubSeq(@, 1, n - 1)]
    /\ UNCHANGED <<app, analyses, uploads, impl, pc, scenario, response, rawText, jsonCandidate, tier,
                   parsedRaw, normalized, final, err, modelCalls, clampArg, clampRes,
                   request, env, globalKey, apiKey>>

\* addOption, updateOption with a name and removeOption, on the last option
EditOptions ==
    /\ app.step = 3
    /\ LET n == Len(decision.options)
       IN \/ /\ n < MaxWizardOptions
             /\ decision' = [decision EXCEPT
                                !.options = Append(@, [id |-> "g" \o ToString(n + 1),
                                                       name |-> "Option C",
                                                       description |-> "",
                                                       attachments |-> <<>>])]
          \/ \E name \in {"", "Flat B"} :
                decision' = [decision EXCEPT !.options[n].name = name]
          \/ /\ n > 2
             /\ decision' = [decision EXCEPT !.options = SubSeq(@, 1, n - 1)]
    /\ UNCHANGED <<app, analyses, uploads, impl, pc, scenario, response, rawText, jsonCandidate, tier,
                   parsedRaw, normalized, final, err, modelCalls, clampArg, clampRes,
                   request, env, globalKey, apiKey>>

\* handleAnalyze up to the await: analyzeDecision(state) is pending
StartAnalysis ==
    /\ app.step = 3
    /\ \A i \in 1..Len(decision.options) : decision.options[i].name # ""
    /\ Cardinality(analyses) < MaxInFlight
    /\ analyses' = analyses \cup {decision}
    /\ app' = [app EXCEPT !.step = 4, !.error = NoError]
    /\ UNCHANGED <<decision, uploads, impl, pc, scenario, response, rawText, jsonCandidate, tier,
                   parsedRaw, normalized, final, err, modelCalls, clampArg, clampRes,
                   request, env, globalKey, apiKey>>

\* handleAnalyze after the await: a result with one analysis per option of
\* `data` is stored and shown, or the catch block runs (with an error that
\* has no message)
AnalysisSettles ==
    /\ \E data \in analyses :
          /\ analyses' = analyses \ {data}
          /\ \/ app' = [app EXCEPT
                              !.result = [analysis |->
                                             [i \in 1..Len(data.options) |->
                                                 [optionId |-> data.options[i].id]]],
                              !.step = 5]
             \/ app' = [app EXCEPT !.error = ErrorMessage(DefaultMessage), !.step = 3]
    /\ UNCHANGED <<decision, uploads, impl, pc, scenario, response, rawText, jsonCandidate, tier,
                   parsedRaw, normalized, final, err, modelCalls, clampArg, clampRes,
                   request, env, globalKey, apiKey>>

WizardNext ==
    \/ Navigate
    \/ applyTemplate
    \/ ResetState
    \/ EditTitle
    \/ EditCriteria
    \/ EditOptions
    \/ StartAnalysis
    \/ AnalysisSettles

WizardSpec == WizardInit /\ [][WizardNext]_vars

\* handleFileUpload(optionId, files) up to its awaits, for the first option:
\* the files that are not too large are being read
StartUpload ==
    /\ app.step = 3
    /\ Cardinality(uploads) < MaxUploads
    /\ \E files \in {<<[name |-> "a.png", type |-> "image/png", size |-> 1]>>,
                     <<[name |-> "huge.pdf", type |-> "application/pdf", size |-> 5],
                       [name |-> "c.pdf", type |-> "application/pdf", size |-> 2]>>} :
          LET kept == SelectSeq(files, LAMBDA f : f.size <= MAX_SIZE)
              newAttachments ==
                  [i \in 1..Len(kept) |->
                      Attachment(kept[i].name, kept[i].type, "base64-of-" \o kept[i].name)]
          IN /\ Len(decision.options[1].attachments) + Len(newAttachments)
                   <= MaxAttachments
             /\ uploads' = uploads \cup {[optionId |-> decision.options[1].id,
                                          newAttachments |-> newAttachments,
                                          options |-> decision.options]}
    /\ UNCHANGED <<app, decision, analyses, impl, pc, scenario, response, rawText, jsonCandidate, tier,
                   parsedRaw, normalized, final, err, modelCalls, clampArg, clampRes,
                   request, env, globalKey, apiKey>>

\* handleFileUpload after its awaits (lines 142-145): the option is looked
\* up in, and updateOption maps over, the state.options of the handler's
\* render
FinishUpload ==
    /\ \E u \in uploads :
          /\ uploads' = uploads \ {u}
          /\ LET found == {i \in 1..Len(u.options) : u.options[i].id = u.optionId}
             IN IF found = {} THEN decision' = decision
                ELSE decision' =
                        [decision EXCEPT
                            !.options =
                                [i \in 1..Len(u.options) |->
                                    IF u.options[i].id = u.optionId
                                    THEN [u.options[i] EXCEPT
                                             !.attachments = @ \o u.newAttachments]
                                    ELSE u.options[i]]]
    /\ UNCHANGED <<app, analyses, impl, pc, scenario, response, rawText, jsonCandidate, tier,
                   parsedRaw, normalized, final, err, modelCalls, clampArg, clampRes,
                   request, env, globalKey, apiKey>>

\* the X of an attachment chip: updateOption with the other attachments
RemoveAttachment ==
    /\ app.step = 3
    /\ \E i \in 1..Len(decision.options) :
          /\ decision.options[i].attachments # <<>>
          /\ decision' = [decision EXCEPT !.options[i].attachments = Tail(@)]
    /\ UNCHANGED <<app, analyses, uploads, impl, pc, scenario, response, rawText, jsonCandidate, tier,
                   parsedRaw, normalized, final, err, modelCalls, clampArg, clampRes,
                   request, env, globalKey, apiKey>>

\* the Options step while files are uploaded
UploadNext ==
    \/ EditOptions
    \/ RemoveAttachment
    \/ StartUpload
    \/ FinishUpload

UploadSpec == WizardInit /\ [][UploadNext]_vars

-----------------------------------------------------------------------------
(* Properties *)

Returned == pc = "done"

AnalysisOf(result) == Prop(result, "analysis")

\* the criteria entries of one element of a returned analysis
CriteriaOf(option) ==
    IF ArrayIsArray(Prop(option, "criteriaAnalysis"))
    THEN Prop(option, "criteriaAnalysis").kids ELSE <<>>

\* an integer in 0..100
IsIntegerScore(v) ==
    v.t = "num" /\ v.n % Scale = 0 /\ v.n >= 0 /\ v.n <= 100 * Scale

ResultValid(result) ==
    /\ ArrayIsArray(AnalysisOf(result))
    /\ \A i \in 1..Len(AnalysisOf(result).kids) :
          \A j \in 1..Len(CriteriaOf(AnalysisOf(result).kids[i])) :
             LET ca == CriteriaOf(AnalysisOf(result).kids[i])[j]
             IN HasKey(ca, "score") => IsIntegerScore(Prop(ca, "score"))

\* C1: every value analyzeDecision returns has an array as `analysis`, and
\* every criterion score in it is an integer in 0..100.
C1_ReturnedResultValid == Returned => ResultValid(final)

\* C1, for decisionSherlock's analyzeDecision alone (it holds there).
C1_DsReturnedResultValid == (Returned /\ impl = "ds") => ResultValid(final)

\* what the clamp rule of the specification gives for an argument
IsNumericArg(n) ==
    \/ n.t = "num"
    \/ n.t = "str" /\ n.s \in DOMAIN NumericStrings /\ n.s # ""

NumericValue(n) == IF n.t = "num" THEN n.n ELSE NumericStrings[n.s]

ClampRuleHolds(n, res) ==
    /\ res.t = "num"
    /\ IF ~IsNumericArg(n) THEN res.n = 0
       ELSE IF NumericValue(n) < 0 THEN res.n = 0
       ELSE IF NumericValue(n) > 100 * Scale THEN res.n = 100 * Scale
       ELSE /\ res.n % Scale = 0
            /\ 2 * (res.n - NumericValue(n)) <= Scale
            /\ 2 * (NumericValue(n) - res.n) <= Scale

\* the only score of a returned result with one option and one criterion
OnlyScore(result) ==
    Prop(CriteriaOf(AnalysisOf(result).kids[1])[1], "score")

\* C2: clampScore gives 0 for a negative number, 100 for a number above
\* 100, 0 for a non-numeric or missing value and the nearest integer for a
\* number in range; the pipeline returns a score of 150 as 100.
C2_ClampRule ==
    /\ pc = "clamped" => ClampRuleHolds(clampArg, clampRes)
    /\ (Returned /\ impl = "ds" /\ scenario = Plain("resp", GoodPayload))
          => OnlyScore(final) = Num(100 * Scale)

\* C2, with the values the claim does not name left out: booleans and arrays.
C2_ClampRuleOnNamedValues ==
    /\ (pc = "clamped" /\ clampArg.t \notin {"bool", "arr"})
          => ClampRuleHolds(clampArg, clampRes)
    /\ (Returned /\ impl = "ds" /\ scenario = Plain("resp", GoodPayload))
          => OnlyScore(final) = Num(100 * Scale)

WinnerOf(result) == Prop(result, "winnerId")

NamesAnOption(result, id) ==
    /\ ArrayIsArray(AnalysisOf(result))
    /\ \E i \in 1..Len(AnalysisOf(result).kids) :
          Prop(AnalysisOf(result).kids[i], "optionId") = id

\* C3: the returned winner identifier is the empty string or the optionId
\* of an element of the returned analysis.
C3_WinnerNamesOption ==
    Returned => (WinnerOf(final) = Str("") \/ NamesAnOption(final, WinnerOf(final)))

\* the mean of option i is at least the mean of option j
MeanAtLeast(result, i, j) ==
    LET si == Scores(AnalysisOf(result).kids[i])
        sj == Scores(AnalysisOf(result).kids[j])
    IN CASE sj = <<>> -> TRUE
         [] si = <<>> -> Sum(sj) = 0
         [] OTHER -> Sum(si) * Len(sj) >= Sum(sj) * Len(si)

\* the first option whose mean no other option exceeds
FirstBest(result) ==
    Min({i \in 1..Len(AnalysisOf(result).kids) :
            \A j \in 1..Len(AnalysisOf(result).kids) : MeanAtLeast(result, i, j)})

C5_WinnerFrame ==
    (Returned /\ impl = "ds" /\ WinnerOf(final) # WinnerOf(normalized))
    => (WinnerOf(normalized) = Str("") /\ Len(AnalysisOf(normalized).kids) >= 2)

\* C5, for winner identifiers that are strings (it holds there).
C5_WinnerFrameOnStrings ==
    (Returned /\ impl = "ds" /\ WinnerOf(normalized).t = "str"
       /\ WinnerOf(final) # WinnerOf(normalized))
    => (WinnerOf(normalized) = Str("") /\ Len(AnalysisOf(normalized).kids) >= 2)

\* no strategy of the extractor can recover a text from the response
Unrecoverable(r) ==
    \/ r.nil \in {"undefined", "null"}
    \/ /\ r.value = Undef
       /\ r.text.k = "absent" \/ (r.text.k = "function" /\ r.text.ret = "throws")
       /\ ~r.outputText.some /\ ~r.outputs.some
       /\ r.circular

\* C6: text extraction never raises and always yields a string; when no text
\* can be recovered it yields the empty string and the pipeline fails as
\* NoJsonFound.
C6_ExtractionNeverRaises ==
    /\ err \notin {"ExtractFailed", "TypeError: rawText"}
    /\ pc \in {"text", "candidate", "parsed", "normalized", "done"} => rawText.isString
    /\ (rawText.isString /\ Unrecoverable(response)) => rawText.toks = <<>>
    /\ (pc = "failed" /\ modelCalls = 1 /\ err # "ModelInvocationFailure"
          /\ Unrecoverable(response)) => err = "NoJsonFound"

\* C6, for geminiService's extractRawText alone: it never raises, and an
\* unrecoverable response ends as NoJsonFound.
C6_GsExtractionNeverRaises ==
    impl = "gs" =>
       /\ err \notin {"ExtractFailed", "TypeError: rawText"}
       /\ pc \in {"text", "candidate", "parsed", "normalized", "done"} => rawText.isString
       /\ (pc \in {"failed", "done"} /\ err # "ModelInvocationFailure"
             /\ Unrecoverable(response)) => err = "NoJsonFound"

\* the extracted text is the text the scenario describes
FromScenario ==
    /\ scenario.shape = "text_string"
    /\ rawText.isString
    /\ rawText.toks = BuildText(scenario)

\* a JSON candidate was chosen
HasCandidate ==
    \/ pc \in {"candidate", "parsed", "normalized", "done"}
    \/ pc = "failed" /\ err \in {"InvalidJson", "TypeError: normalize"}

PostHasMarker(sc) == \E i \in 1..Len(sc.post) : sc.post[i] = MARKER

\* what follows the marker that sc.post holds
AfterPostMarker(sc) ==
    SubSeq(sc.post, (CHOOSE i \in 1..Len(sc.post) : sc.post[i] = MARKER) + 1,
           Len(sc.post))

\* what the fence removal leaves of the leading fences: a tag other than json
\* stays, and so does a json fence behind a bare one
LeadLeft(lead) ==
    CASE lead = "js" -> <<Word("js"), WS>>
      [] lead = "bare+json" -> <<FENCE, Word("json"), WS>>
      [] OTHER -> <<>>

\* what removing one leading fence with any language tag would leave
LeadLeftAnyTag(lead) ==
    CASE lead = "json+bare" -> <<FENCE, WS>>
      [] lead = "bare+json" -> <<FENCE, Word("json"), WS>>
      [] OTHER -> <<>>

\* what is left after the body: a fence is removed only at the very end
TailLeft(sc) ==
    IF sc.trail /\ \A i \in 1..Len(sc.post) : IsWs(sc.post[i])
    THEN <<>>
    ELSE (IF sc.trail THEN <<WS, FENCE>> ELSE <<>>) \o sc.post

\* the spans of text from its first { to its last } (none or one)
BraceSpans(text) ==
    {SubSeq(text, a, b) :
        a \in {i \in 1..Len(text) :
                  text[i] = P("{") /\ \A j \in 1..(i - 1) : text[j] # P("{")},
        b \in {i \in 2..Len(text) :
                  /\ text[i] = P("}") /\ \A j \in (i + 1)..Len(text) : text[j] # P("}")
                  /\ \E j \in 1..(i - 1) : text[j] = P("{")}}

CandidateIs(lead) ==
    /\ (scenario.marker /\ Body(scenario) # <<>>)
          => jsonCandidate = Trim(lead \o Body(scenario) \o TailLeft(scenario))
    /\ (~scenario.marker /\ PostHasMarker(scenario))
          => jsonCandidate = Trim(AfterPostMarker(scenario))
    /\ (~scenario.marker /\ ~PostHasMarker(scenario))
          => jsonCandidate \in BraceSpans(rawText.toks)

NoMarkerNoBraces(text) ==
    /\ \A i \in 1..Len(text) : text[i] # MARKER
    /\ \A a, b \in 1..Len(text) : ~(a < b /\ text[a] = P("{") /\ text[b] = P("}"))

\* only whitespace follows the first marker of the text
NothingFollowsMarker(text) ==
    \E i \in 1..Len(text) :
       /\ text[i] = MARKER
       /\ \A j \in 1..(i - 1) : text[j] # MARKER
       /\ \A j \in (i + 1)..Len(text) : IsWs(text[j])

NothingToParse(text) == NoMarkerNoBraces(text) \/ NothingFollowsMarker(text)

\* C8: when the extracted text has neither a marker nor a brace block, or
\* has a marker with nothing but whitespace after it, the pipeline ends with
\* NoJsonFound and returns no value.
C8_NoJsonFound ==
    (pc \in {"done", "failed"} /\ rawText.isString /\ NothingToParse(rawText.toks))
    => (pc = "failed" /\ err = "NoJsonFound" /\ final = Undef)

\* C8, for decisionSherlock's analyzeDecision alone (it holds there).
C8_DsNoJsonFound ==
    (impl = "ds" /\ pc \in {"done", "failed"} /\ rawText.isString
       /\ NothingToParse(rawText.toks))
    => (pc = "failed" /\ err = "NoJsonFound" /\ final = Undef)

\* token i is a comma with only whitespace between it and a closing brace or
\* bracket
TrailingComma(toks, i) ==
    /\ toks[i] = P(",")
    /\ \E c \in (i + 1)..Len(toks) :
          IsCloser(toks[c]) /\ \A k \in (i + 1)..(c - 1) : IsWs(toks[k])

\* token i goes when trailing commas are removed: such a comma, or the
\* whitespace between it and the closing brace or bracket
Removed(toks, i) ==
    \/ TrailingComma(toks, i)
    \/ /\ IsWs(toks[i])
       /\ \E h \in 1..(i - 1) :
             TrailingComma(toks, h) /\ \A k \in (h + 1)..i : IsWs(toks[k])

WithoutTrailingCommas(toks) ==
    LET kept == SelectSeq([i \in 1..Len(toks) |-> i], LAMBDA i : ~Removed(toks, i))
    IN [n \in 1..Len(kept) |-> toks[kept[n]]]

Parsed ==
    \/ pc \in {"parsed", "normalized", "done"}
    \/ pc = "failed" /\ err = "TypeError: normalize"

\* C9: safeParseJSON returns the strict parse of the candidate when that
\* succeeds; otherwise the strict parse of the candidate without its trailing
\* commas when that succeeds; otherwise the strict parse of the span from the
\* first { to the last } of that text; when all three fail the pipeline
\* fails with InvalidJson and returns no value.
C9_ThreeTiers ==
    impl = "ds" =>
       LET first == JSONparse(jsonCandidate)
           cleaned == WithoutTrailingCommas(jsonCandidate)
           second == JSONparse(cleaned)
           thirds == {JSONparse(blk) : blk \in BraceSpans(cleaned)}
       IN /\ Parsed =>
                \/ tier = 1 /\ first.ok /\ parsedRaw = first.v
                \/ tier = 2 /\ ~first.ok /\ second.ok /\ parsedRaw = second.v
                \/ /\ tier = 3 /\ ~first.ok /\ ~second.ok
                   /\ \E third \in thirds : third.ok /\ parsedRaw = third.v
          /\ (pc = "failed" /\ err = "InvalidJson") =>
                /\ ~first.ok /\ ~second.ok /\ \A third \in thirds : ~third.ok
                /\ parsedRaw = Undef /\ final = Undef
          /\ (Parsed /\ FromScenario /\ scenario.fam = "wrap") =>
                /\ (jsonCandidate = Body(scenario)
                      /\ scenario.style \in {"compact", "pretty"})
                      => (tier = 1 /\ parsedRaw = scenario.payload)
                /\ (jsonCandidate = Body(scenario) /\ scenario.style = "trailing")
                      => (tier = 2 /\ parsedRaw = scenario.payload)
                /\ (jsonCandidate = Body(scenario) \o <<WS, Word("Done")>>
                      /\ scenario.style \in {"compact", "pretty", "trailing"}
                      /\ scenario.payload = GoodPayload)
                      => (tier = 3 /\ parsedRaw = scenario.payload)

\* C9 witness: a payload with trailing commas and prose after it is parsed by
\* the third tier
C9_Witness ==
    /\ pc = "parsed" /\ impl = "ds" /\ FromScenario
    /\ scenario.style = "trailing"
    /\ jsonCandidate = Body(scenario) \o <<WS, Word("Done")>>
    /\ tier = 3
    /\ parsedRaw = GoodPayload

\* marker + P wrapped in fences, the opening fence with one of the tags
Fenced(sc, tags) ==
    /\ sc.marker /\ sc.lead \in tags /\ sc.trail
    /\ sc.post \in {<<>>, <<WS>>}

\* marker + P
Unfenced(sc) == [sc EXCEPT !.lead = "none", !.trail = FALSE]

\* how parsing the text ends: the failure, or the parsed value
ParseOutcome(i, text) ==
    LET c == IF i = "ds" THEN dsCandidate(text) ELSE gsCandidate(text)
        r == IF i = "ds" THEN safeParseJSON(c) ELSE JSONparse(c)
    IN IF (i = "ds" /\ c = <<>>) \/ (i = "gs" /\ gsNoJson(text))
       THEN [err |-> "NoJsonFound", v |-> Undef]
       ELSE IF ~r.ok THEN [err |-> "InvalidJson", v |-> Undef]
       ELSE [err |-> "", v |-> r.v]

SameParseAsUnfenced ==
    LET u == ParseOutcome(impl, BuildText(Unfenced(scenario)))
    IN /\ Parsed => (u.err = "" /\ parsedRaw = u.v)
       /\ (pc = "failed" /\ err \in {"NoJsonFound", "InvalidJson"}) => u.err = err
       /\ (Parsed /\ scenario.fam = "wrap"
             /\ scenario.style \in {"compact", "pretty"})
             => parsedRaw = scenario.payload

\* C10 as stated: a payload in fences whose opening fence has a language tag
\* is parsed to the same object as the payload without the fences.
C10_AnyTagSameParse ==
    (FromScenario /\ Fenced(scenario, {"json", "JSON", "js"})) => SameParseAsUnfenced

\* C10 amended: a payload in fences whose opening fence has the language tag
\* json (in any letter case) is parsed to the same object as the payload
\* without the fences, and fails the same way when that one fails.
C10_JsonFenceSameParse ==
    (FromScenario /\ Fenced(scenario, {"json", "JSON"})) => SameParseAsUnfenced

\* C10 witness: geminiService parses a json-fenced payload to the payload
C10_Witness ==
    /\ pc = "parsed" /\ impl = "gs" /\ FromScenario
    /\ Fenced(scenario, {"json"}) /\ scenario.style = "compact"
    /\ parsedRaw = scenario.payload

\* a criterion record of the advertised shape with an integer score in 0..100
WellFormedCriterion(ca) ==
    /\ ca.t = "obj"
    /\ Prop(ca, "criteriaId").t = "str" /\ Prop(ca, "criteriaId").s # ""
    /\ IsIntegerScore(Prop(ca, "score"))

\* an option record of the advertised shape
WellFormedOption(a) ==
    /\ a.t = "obj"
    /\ Prop(a, "optionId").t = "str" /\ Prop(a, "optionId").s # ""
    /\ ArrayIsArray(Prop(a, "criteriaAnalysis"))
    /\ \A j \in 1..Len(Prop(a, "criteriaAnalysis").kids) :
          WellFormedCriterion(Prop(a, "criteriaAnalysis").kids[j])

\* a result of the advertised shape whose winner names one of its options
WellFormed(p) ==
    /\ p.t = "obj"
    /\ ArrayIsArray(AnalysisOf(p))
    /\ \A i \in 1..Len(AnalysisOf(p).kids) : WellFormedOption(AnalysisOf(p).kids[i])
    /\ WinnerOf(p).t = "str"
    /\ NamesAnOption(p, WinnerOf(p))

\* the payload follows the marker as compact JSON and nothing else does
PlacedAfterMarker ==
    /\ scenario.marker /\ scenario.lead = "none" /\ ~scenario.trail
    /\ scenario.post = <<>> /\ scenario.style = "compact"
    /\ scenario.shape = "text_string"

\* the same options in the same order, with the same identifiers and scores
SameOptions(result, p) ==
    /\ ArrayIsArray(AnalysisOf(result))
    /\ Len(AnalysisOf(result).kids) = Len(AnalysisOf(p).kids)
    /\ \A i \in 1..Len(AnalysisOf(p).kids) :
          LET a == AnalysisOf(p).kids[i]
              b == AnalysisOf(result).kids[i]
          IN /\ Prop(b, "optionId") = Prop(a, "optionId")
             /\ Len(CriteriaOf(b)) = Len(CriteriaOf(a))
             /\ \A j \in 1..Len(CriteriaOf(a)) :
                   /\ Prop(CriteriaOf(b)[j], "criteriaId")
                         = Prop(CriteriaOf(a)[j], "criteriaId")
                   /\ Prop(CriteriaOf(b)[j], "score") = Prop(CriteriaOf(a)[j], "score")

\* C11: a well-formed result placed as JSON after the marker is returned
\* with the same options in the same order, the same option and criterion
\* identifiers, the same scores and the same winnerId, and never fails.
C11_RoundTrip ==
    (PlacedAfterMarker /\ WellFormed(scenario.payload)) =>
       /\ pc # "failed"
       /\ Returned => /\ SameOptions(final, scenario.payload)
                      /\ WinnerOf(final) = WinnerOf(scenario.payload)

\* C11 witness: two options, the named winner has the lower mean
C11_Witness ==
    /\ Returned /\ impl = "ds" /\ PlacedAfterMarker /\ WellFormed(scenario.payload)
    /\ Len(AnalysisOf(scenario.payload).kids) = 2
    /\ Scores(AnalysisOf(final).kids[1]) = <<1000, 800>>
    /\ Scores(AnalysisOf(final).kids[2]) = <<720>>
    /\ WinnerOf(final) = Str("o2")

\* C12: once a JSON value has been parsed the pipeline does not fail,
\* whatever the value: null, a primitive, or an analysis whose elements or
\* criteria are null, numbers or strings.
C12_NormalizationNeverFails == tier # 0 => pc # "failed"

\* C12, for parsed values without a null where an object is read: the parsed
\* value itself, the elements of its analysis and their criteria (it holds
\* for decisionSherlock's analyzeDecision).
C12_DsFailsOnlyOnNull ==
    (impl = "ds" /\ tier # 0 /\ pc = "failed") =>
       \/ parsedRaw = Null
       \/ \E i \in 1..Len(rawAnalysis(parsedRaw)) :
             \/ rawAnalysis(parsedRaw)[i] = Null
             \/ \E j \in 1..Len(caArray(rawAnalysis(parsedRaw)[i])) :
                   caArray(rawAnalysis(parsedRaw)[i])[j] = Null

HasAnyKey(v, keys) == \E i \in 1..Len(keys) : ~Nullish(Prop(v, keys[i]))

\* a single object with an option-identifier-like and a criteria-like field
OptionShaped(v) ==
    /\ v.t = "obj"
    /\ HasAnyKey(v, <<"optionId", "option_id", "opt_id", "id">>)
    /\ HasAnyKey(v, <<"criteriaAnalysis", "criteria_analysis", "criteria">>)

\* the returned analysis is a one-element array for the object v
WrapsOption(result, v) ==
    /\ ArrayIsArray(AnalysisOf(result))
    /\ Len(AnalysisOf(result).kids) = 1
    /\ Prop(AnalysisOf(result).kids[1], "optionId")
          = Fallback(v, <<"optionId", "option_id", "opt_id", "id">>, Undef)

\* C13: when the parsed object's analysis field is a single object of the
\* option-analysis shape, under any accepted spelling of its fields, the
\* returned analysis is a one-element array holding that option.
C13_SingleOptionWrapped ==
    (Returned /\ OptionShaped(Prop(parsedRaw, "analysis")))
    => WrapsOption(final, Prop(parsedRaw, "analysis"))

\* C13, for decisionSherlock's analyzeDecision and the spellings optionId and
\* criteriaAnalysis (it holds there).
C13_DsCanonicalOptionWrapped ==
    (Returned /\ impl = "ds"
       /\ Truthy(Prop(Prop(parsedRaw, "analysis"), "optionId"))
       /\ Truthy(Prop(Prop(parsedRaw, "analysis"), "criteriaAnalysis"))
       /\ Prop(parsedRaw, "analysis").t = "obj")
    => /\ WrapsOption(final, Prop(parsedRaw, "analysis"))
       /\ AnalysisOf(final).kids[1] = NormalizeOption(Prop(parsedRaw, "analysis"))

BraceFree(toks) == \A i \in 1..Len(toks) : toks[i] \notin {P("{"), P("}")}

\* no marker; brace-free text, one JSON object, brace-free text
OneObjectNoMarker ==
    /\ FromScenario
    /\ ~scenario.marker /\ ~PostHasMarker(scenario)
    /\ BraceFree(scenario.pre) /\ BraceFree(scenario.post)
    /\ scenario.payload.t = "obj"
    /\ scenario.style \in {"compact", "pretty"}

\* C14: a text without the marker that holds exactly one JSON object, with
\* brace-free text around it, is parsed to exactly that object.
C14_FallbackParsesTheObject ==
    OneObjectNoMarker =>
       /\ pc # "failed"
       /\ HasCandidate => jsonCandidate = Body(scenario)
       /\ Parsed => (parsedRaw = scenario.payload /\ tier = 1)

\* C14 witness: prose and a fence before the object, a fence and prose after
C14_Witness ==
    /\ pc = "parsed" /\ impl = "gs" /\ OneObjectNoMarker
    /\ scenario.pre = <<Word("Here"), WS>> /\ scenario.post = <<WS, Word("Done")>>
    /\ scenario.lead = "json" /\ scenario.trail
    /\ scenario.style = "pretty"
    /\ parsedRaw = GoodPayload

\* analyzeDecision has ended
Ended == pc \in {"done", "failed", "stored", "reported"}

\* C15: an invocation makes at most one call to the model and never a
\* second one: a call is made only from the start of the invocation, and an
\* invocation that failed has made exactly one call (none when the API key
\* is missing) and stays failed with the failure it has.
C15_SingleModelCall ==
    /\ [](/\ modelCalls <= 1
          /\ (err # "" => (/\ modelCalls = (IF err = "MissingApiKey" THEN 0 ELSE 1)
                           /\ pc \in {"failed", "reported"}))
          /\ (pc \in {"failed", "reported"} => err # ""))
    /\ [][/\ (modelCalls' # modelCalls
                => (pc = "start" /\ modelCalls = 0 /\ modelCalls' = 1))
          /\ (err # "" => (err' = err /\ pc' \in {"failed", "reported"}))]_vars

\* C15 witness: an invocation that ended with InvalidJson after its one call
C15_Witness == pc = "failed" /\ err = "InvalidJson" /\ modelCalls = 1

\* the model was called and gave no response
ModelCallFailed == modelCalls = 1 /\ scenario = NoScenario

\* C16: when the model call fails analyzeDecision rejects with that failure
\* at once: no later step has run and no result value exists.
C16_ModelFailurePropagates ==
    ModelCallFailed =>
       /\ pc \in {"failed", "reported"}
       /\ err = "ModelInvocationFailure"
       /\ rawText = NoRawText /\ jsonCandidate = <<>> /\ tier = 0
       /\ parsedRaw = Undef /\ normalized = Undef /\ final = Undef
       /\ app.step # 5 /\ app.result \in {Null, EarlierResult}

\* C16 witness: the failed call, before the wizard has handled it
C16_Witness ==
    /\ ModelCallFailed /\ pc = "failed" /\ impl = "gs"
    /\ err = "ModelInvocationFailure" /\ app.step = 4

\* text extraction has run on a response of the model
ExtractionRan == modelCalls = 1 /\ scenario # NoScenario /\ pc # "called"

\* the responses whose first strategy with a text, in the stated order, holds
\* the text of the scenario (when that text is not empty)
TextFirstShapes ==
    {"text_string", "text_fn", "fn_throws_outputText", "outputText", "outputs_text",
     "outputs_content", "value_text_fn", "text_outputText_outputs",
     "outputText_outputs"}

ExtractionInOrder ==
    ExtractionRan =>
       /\ (scenario.shape \in TextFirstShapes /\ BuildText(scenario) # <<>>)
             => (rawText.isString /\ rawText.toks = BuildText(scenario))
       /\ scenario.shape = "fn_throws"
             => (rawText.isString /\ rawText.toks = <<P("{"), P("}")>>)
       /\ scenario.shape = "outputs_json"
             => (rawText.isString /\ rawText.toks = JSONstringify(scenario.payload))

\* C17: the extracted text is that of the first strategy that has one, in
\* the order text accessor, text field, outputText field, entries of the
\* outputs array, serialized response; no other field goes before the text
\* accessor, and a raising accessor is passed over.
C17_ExtractionOrder == ExtractionInOrder

\* C17, for geminiService's extractRawText alone (it holds there).
C17_GsExtractionOrder == impl = "gs" => ExtractionInOrder

\* C18: within an invocation each step runs after the one before it has
\* finished: the text is extracted after the model call resolved, the JSON
\* candidate is taken from the extracted text, parsing runs on the candidate,
\* normalization on the parsed value and winner inference on the normalized
\* result; nothing downstream exists while an earlier step is pending.
C18_StepsInOrder ==
    /\ [](/\ pc \in {"idle", "start", "called", "built", "clamped"}
             => /\ rawText = NoRawText /\ jsonCandidate = <<>> /\ tier = 0
                /\ parsedRaw = Undef /\ normalized = Undef /\ final = Undef
          /\ pc \in {"text", "candidate"}
             => /\ rawText.isString /\ tier = 0
                /\ parsedRaw = Undef /\ normalized = Undef /\ final = Undef
          /\ pc = "text" => jsonCandidate = <<>>
          /\ pc = "parsed" => (tier # 0 /\ normalized = Undef /\ final = Undef)
          /\ pc = "normalized" => (normalized # Undef /\ final = Undef)
          /\ pc \in {"done", "stored"} => final # Undef)
    /\ [][/\ (response' # response) => (pc = "start" /\ modelCalls = 0)
          /\ (rawText' # rawText) => (pc = "called" /\ modelCalls = 1)
          /\ (jsonCandidate' # jsonCandidate \/ (err' # err /\ err' = "NoJsonFound"))
                => (pc = "text" /\ rawText.isString)
          /\ (tier' # tier \/ parsedRaw' # parsedRaw
                \/ (err' # err /\ err' = "InvalidJson"))
                => pc = "candidate"
          /\ (normalized' # normalized) => (pc = "parsed" /\ impl = "ds")
          /\ (final' # final)
                => \/ impl = "ds" /\ pc = "normalized" /\ normalized # Undef
                   \/ impl = "gs" /\ pc = "parsed"]_vars

\* C18 witness: a result returned from a text that an awaited accessor gave
C18_Witness ==
    /\ pc = "done" /\ impl = "ds" /\ scenario.shape = "text_fn"
    /\ rawText.toks = BuildText(scenario) /\ final # Undef

\* C19: handleAnalyze shows the loading step with no error while
\* analyzeDecision runs; when analyzeDecision fails the wizard is at step 3
\* with one non-empty error message and the result it had; step 5 is
\* entered only with the value analyzeDecision returned stored as the result.
C19_FailureNeverShowsResults ==
    /\ [](/\ (impl = "gs" /\ pc \in {"start", "called", "text", "candidate", "parsed",
                                     "done", "failed"})
             => (app.step = 4 /\ app.error = NoError)
          /\ pc = "reported"
             => (app.step = 3 /\ ~app.error.isNull /\ app.error.message # "")
          /\ app.step = 5
             => (pc = "stored" /\ err = "" /\ final # Undef /\ app.result = final))
    /\ [][/\ (pc' = "reported") => (pc = "failed" /\ app'.result = app.result)
          /\ (app'.step = 5) => (pc = "done" /\ app'.result = final)
          /\ (app'.result # app.result) => pc = "done"]_vars

\* C19 witness: a failed call whose error has no message, after an earlier
\* analysis that had succeeded
C19_Witness ==
    /\ pc = "reported" /\ err = "ModelInvocationFailure"
    /\ app = AppState(3, ErrorMessage(DefaultMessage), EarlierResult)

\* the attachments of the options as pairs <<option, attachment>>
AttachmentSlots(options) ==
    UNION {{<<i, j>> : j \in 1..(IF options[i].hasList
                                  THEN Len(options[i].attachments) ELSE 0)} :
           i \in 1..Len(options)}

\* the place of a slot in option order, then attachment order
SlotRank(options, slot) ==
    Cardinality({t \in AttachmentSlots(options) :
                    t[1] < slot[1] \/ (t[1] = slot[1] /\ t[2] <= slot[2])})

IsTextBlock(b, role) == b.role = role /\ Len(b.parts) = 1 /\ b.parts[1].k = "text"

\* C20: the contents list is a system block, a user block with the prompt,
\* one user block per attachment in option order and attachment order with
\* the attachment's MIME type and payload as inline data, and a final user
\* instruction: 3 blocks plus one per attachment; no payload of an
\* attachment is in the prompt text.
C20_ContentsList ==
    pc = "built" =>
       LET options == request.options
           contents == request.contents
           slots == AttachmentSlots(options)
       IN /\ Len(contents) = 3 + Cardinality(slots)
          /\ IsTextBlock(contents[1], "system")
          /\ IsTextBlock(contents[2], "user")
          /\ IsTextBlock(contents[Len(contents)], "user")
          /\ contents[Len(contents)] = FinalInstruction
          /\ \A slot \in slots :
                LET b == contents[2 + SlotRank(options, slot)]
                    att == options[slot[1]].attachments[slot[2]]
                IN /\ b.role = "user"
                   /\ \E n \in 1..Len(b.parts) :
                         /\ b.parts[n].k = "inlineData"
                         /\ b.parts[n].mimeType = att.mimeType
                         /\ b.parts[n].data = att.data
          /\ \A l \in 1..Len(contents[2].parts[1].text) :
                \A n \in 1..Len(contents[2].parts[1].text[l]) :
                   contents[2].parts[1].text[l][n]
                      \notin {att.data : att \in AttachmentPool}

\* C20 witness: two options with two attachments each
C20_Witness ==
    /\ pc = "built" /\ Len(request.options) = 2
    /\ Len(request.options[1].attachments) = 2
    /\ Len(request.options[2].attachments) = 2
    /\ request.options[1].attachments[2] # request.options[2].attachments[1]
    /\ Len(request.contents) = 7

\* the field is there and holds a value (neither null nor undefined)
Present(v, key) == HasKey(v, key) /\ ~Nullish(Prop(v, key))

PresentAt(v, keys) == {i \in 1..Len(keys) : Present(v, keys[i])}

\* the value of the first present field among keys, dflt when none is
FirstPresent(v, keys, dflt) ==
    IF PresentAt(v, keys) = {} THEN dflt
    ELSE Prop(v, keys[Min(PresentAt(v, keys))])

OptionIdKeys == <<"optionId", "option_id", "opt_id", "id">>
CriteriaKeys == <<"criteriaAnalysis", "criteria_analysis", "criteria">>

\* normalization has run in decisionSherlock's analyzeDecision
DsNormalized == impl = "ds" /\ pc \in {"normalized", "done"}

\* C21: the identifier of every normalized option is the string of the
\* value of the first present spelling among optionId, option_id, opt_id,
\* id, and is "unknown" exactly when none of them is present; its criteria
\* collection is empty whenever the resolved criteria value is not an array.
C21_OptionIdentifier ==
    DsNormalized =>
       LET raw == rawAnalysis(parsedRaw)
           out == AnalysisOf(normalized).kids
       IN /\ Len(out) = Len(raw)
          /\ \A i \in 1..Len(raw) :
                /\ Prop(out[i], "optionId")
                      = Str(JSString(FirstPresent(raw[i], OptionIdKeys, Str("unknown"))))
                /\ (Prop(out[i], "optionId") = Str("unknown"))
                      <=> (PresentAt(raw[i], OptionIdKeys) = {})
                /\ ~ArrayIsArray(FirstPresent(raw[i], CriteriaKeys, Undef))
                      => Prop(out[i], "criteriaAnalysis") = Arr(<<>>)

\* C21 witness: optionId is null and option_id comes before id; a record
\* without identifier; criteria that are a string and an object
C21_Witness ==
    /\ pc = "done" /\ impl = "ds" /\ Len(AnalysisOf(final).kids) = 3
    /\ Prop(rawAnalysis(parsedRaw)[1], "optionId") = Null
    /\ Prop(rawAnalysis(parsedRaw)[1], "id") = Str("o6")
    /\ Prop(rawAnalysis(parsedRaw)[1], "criteria") = Str("none")
    /\ Prop(AnalysisOf(final).kids[1], "optionId") = Str("o5")
    /\ Prop(AnalysisOf(final).kids[1], "criteriaAnalysis") = Arr(<<>>)
    /\ Prop(AnalysisOf(final).kids[2], "optionId") = Str("unknown")
    /\ Prop(AnalysisOf(final).kids[3], "optionId") = Str("")

VerdictKeys == <<"verdict", "summary", "verdict_text">>
WinnerKeys == <<"winnerId", "winner_id", "winner">>
RecommendationKeys == <<"recommendation", "advice">>

\* the three fields of the normalized result are the values of the first
\* present accepted field names, "" when none is present
FirstPresentOrEmpty(result) ==
    /\ Prop(result, "verdict") = FirstPresent(parsedRaw, VerdictKeys, Str(""))
    /\ Prop(result, "winnerId") = FirstPresent(parsedRaw, WinnerKeys, Str(""))
    /\ Prop(result, "recommendation")
          = FirstPresent(parsedRaw, RecommendationKeys, Str(""))

AreStrings(result) ==
    /\ Prop(result, "verdict").t = "str"
    /\ Prop(result, "winnerId").t = "str"
    /\ Prop(result, "recommendation").t = "str"

\* C22: in every returned result verdict, winnerId and recommendation are
\* strings; each is the value of the first present accepted field name and
\* the empty string when none is present; a non-string value is not
\* returned as it is.
C22_FieldsAreStrings ==
    (Returned /\ impl = "ds") => (AreStrings(final) /\ FirstPresentOrEmpty(normalized))

\* C22, without the string types: each field of the normalized result is
\* the value of the first present accepted field name, or "" (it holds).
C22_DsFirstPresentOrEmpty == DsNormalized => FirstPresentOrEmpty(normalized)

\* no API key is configured for the analyzeDecision that runs
NoKeyConfigured == env = "" /\ (impl = "ds" => globalKey = "")

\* only the global fallback is set, and decisionSherlock's analyzeDecision
\* is at its key check
OnlyFallbackAtCheck == impl = "ds" /\ pc = "start" /\ env = "" /\ globalKey # ""

\* C25: without a configured API key analyzeDecision fails with the
\* missing-key error before anything is sent: no client, no request, no
\* model call, no result; the missing-key error occurs only then; and with
\* only the global fallback set decisionSherlock's call proceeds with that
\* value as the key.
C25_MissingKey ==
    /\ [](/\ NoKeyConfigured
             => /\ modelCalls = 0 /\ apiKey = "" /\ request = NoRequest
                /\ response = BuildResponse(NoScenario) /\ final = Undef
                /\ pc \in {"idle", "start", "failed", "reported", "clamped"}
                /\ (pc \in {"failed", "reported"} => err = "MissingApiKey")
                /\ app.step # 5
          /\ err = "MissingApiKey" => (NoKeyConfigured /\ modelCalls = 0)
          /\ (modelCalls > 0 \/ pc = "built") => (apiKey # "" /\ apiKey = env))
    /\ [][(OnlyFallbackAtCheck /\ pc' \notin {"start", "clamped"})
            => /\ apiKey' = globalKey /\ env' = globalKey
               /\ err' # "MissingApiKey"
               /\ (pc' = "built" \/ modelCalls' = 1)]_vars

\* C25 witness: geminiService's analyzeDecision called from the wizard with
\* no key in the environment has failed without a call
C25_Witness ==
    /\ impl = "gs" /\ pc = "failed" /\ err = "MissingApiKey" /\ env = ""
    /\ modelCalls = 0 /\ apiKey = "" /\ app.step = 4

\* decisionSherlock's analyzeDecision returned a result with the fallback key
C25_FallbackUsed ==
    /\ impl = "ds" /\ pc = "done" /\ globalKey = "global-key"
    /\ apiKey = "global-key" /\ env = "global-key" /\ modelCalls = 1

\* the option identifiers a stored result speaks of
AnalysedIds(result) == [i \in 1..Len(result.analysis) |-> result.analysis[i].optionId]

OptionIds(data) == [i \in 1..Len(data.options) |-> data.options[i].id]

\* C23: a completing analysis stores its result, and switches the wizard to
\* the Results step, only when the decision held in the state is the one
\* the analysis was started from; whenever the Results step is shown the
\* stored result is about the options of the state.
C23_ResultsOfCurrentDecision ==
    /\ [](app.step = 5
             => (app.result # Null /\ AnalysedIds(app.result) = OptionIds(decision)))
    /\ [][(analyses' # analyses /\ app'.step = 5)
            => (analyses \ analyses') = {decision'}]_vars

\* C23, for the result alone: the Results step is never shown without a
\* stored result (it holds).
C23_ResultsHaveAResult == app.step = 5 => app.result # Null

\* the decision has a title, at least one criterion and two options, all named
ValidDecision(data) ==
    /\ data.title # ""
    /\ Len(data.criteria) >= 1
    /\ \A i \in 1..Len(data.criteria) : data.criteria[i].name # ""
    /\ Len(data.options) >= 2
    /\ \A i \in 1..Len(data.options) : data.options[i].name # ""

\* C26: analyzeDecision is invoked only with a decision that has a
\* non-empty title, at least one criterion and at least two options, all of
\* them with non-empty names.
C26_AnalysedDecisionValid == \A data \in analyses : ValidDecision(data)

\* C26, for what the controls of the steps 2 and 3 themselves enforce: at
\* least one criterion, at least two options, every option named (it holds).
C26_OptionsValid ==
    \A data \in analyses :
       /\ Len(data.criteria) >= 1
       /\ Len(data.options) >= 2
       /\ \A i \in 1..Len(data.options) : data.options[i].name # ""

\* the options after the attachments read by upload u were added to the
\* option they were read for, when it is still there
WithAttachments(options, u) ==
    [i \in 1..Len(options) |->
        IF options[i].id = u.optionId
        THEN [options[i] EXCEPT !.attachments = @ \o u.newAttachments]
        ELSE options[i]]

\* C24: when an upload finishes, the files it read are added to its option
\* if that is still present, and everything else in the options is as it
\* was just before: no attachment of another upload and no edit made while
\* the files were read is lost.
C24_UploadLosesNothing ==
    [][\A u \in uploads :
          (uploads' = uploads \ {u})
             => decision'.options = WithAttachments(decision.options, u)]_vars

\* C24, for uploads during which the options did not change (it holds).
C24_UploadWithoutInterleaving ==
    [][\A u \in uploads :
          (uploads' = uploads \ {u} /\ u.options = decision.options)
             => decision'.options = WithAttachments(decision.options, u)]_vars
====
